---- MODULE Spec2Model ----
(***************************************************************************)
(* A model of the chess rules engine of ChessByDQK (ChessEngine.py): the   *)
(* GameState object, its move application and undo, the move generators,   *)
(* the attack test and the terminal-state classification of                *)
(* getValidMoves.                                                          *)
(*                                                                         *)
(* Conventions.  The board is board[r][c] with r, c in 0..7, row 0 being   *)
(* Black's back rank, as in the source.  Pieces keep the source's codes:   *)
(* 0 empty, 11..16 white pawn, knight, bishop, rook, queen, king, 21..26   *)
(* the black ones.  Python's None for promotionChoice is 0 (the source     *)
(* only tests its truth value), the empty tuple () is << >>.  Python lists *)
(* are sequences in list order.  The dict positionCounts is a function     *)
(* whose domain is its key set; the key hash((board, whiteToMove)) is      *)
(* modelled by the pair it hashes, that is, without hash collisions.       *)
(***************************************************************************)
EXTENDS Integers, Sequences, FiniteSets, TLC

VARIABLES
    gs,          \* the GameState object (a record of its fields)
    validMoves,  \* the caller's list: what getValidMoves() returned for the
                 \* current position, << >> once the position has changed
    fresh,       \* TRUE iff validMoves was computed for the current position
    printed,     \* what the getValidMoves() call that gave validMoves printed
    lastOp,      \* the method called last
    snaps,       \* history: the position before each makeMove still on the log
    pre,         \* history: what the last call has to be compared with
    ai,          \* the call of SmartMoveFinder.getMove: its arguments, the pool
                 \* of worker processes and what it returned
    nb           \* the GameState object of ChessEngineNb run beside gs, and
                 \* the list its getValidMoves() returned

vars == <<gs, validMoves, fresh, printed, lastOp, snaps, pre, ai, nb>>

----------------------------------------------------------------------------
(* Data *)

StartRows ==
    << <<24, 22, 23, 25, 26, 23, 22, 24>>,
       <<21, 21, 21, 21, 21, 21, 21, 21>>,
       << 0,  0,  0,  0,  0,  0,  0,  0>>,
       << 0,  0,  0,  0,  0,  0,  0,  0>>,
       << 0,  0,  0,  0,  0,  0,  0,  0>>,
       << 0,  0,  0,  0,  0,  0,  0,  0>>,
       <<11, 11, 11, 11, 11, 11, 11, 11>>,
       <<14, 12, 13, 15, 16, 13, 12, 14>> >>

StartBoard == [r \in 0..7 |-> [c \in 0..7 |-> StartRows[r + 1][c + 1]]]

\* numpy indexing: a negative index counts from the end of the axis
Cell(board, r, c) ==
    board[IF r < 0 THEN r + 8 ELSE r][IF c < 0 THEN c + 8 ELSE c]

Abs(x) == IF x < 0 THEN -x ELSE x

\* CastleRight taking its arguments in the order wks, wqs, bks, bqs
CastleRightByColour(wks, bks, wqs, bqs) ==
    [wks |-> wks, wqs |-> bks, bks |-> wqs, bqs |-> bqs]

CastleRight(wks, bks, wqs, bqs) ==
    [wks |-> wks, bks |-> bks, wqs |-> wqs, bqs |-> bqs]

\* Move.__init__; startSquare and endSquare are pairs <<row, col>>
Move(startSquare, endSquare, board, isEnPassantMove, isCastleMove, promotionChoice) ==
    LET pieceMoved == Cell(board, startSquare[1], startSquare[2])
    IN  [ startRow        |-> startSquare[1],
          startCol        |-> startSquare[2],
          endRow          |-> endSquare[1],
          endCol          |-> endSquare[2],
          pieceMoved      |-> pieceMoved,
          pieceCaptured   |-> IF isEnPassantMove
                                THEN (IF pieceMoved = 21 THEN 11 ELSE 21)
                                ELSE Cell(board, endSquare[1], endSquare[2]),
          moveID          |-> startSquare[1] * 1000 + startSquare[2] * 100
                                + endSquare[1] * 10 + endSquare[2],
          isPawnPromotion |-> (pieceMoved = 11 /\ endSquare[1] = 0)
                                \/ (pieceMoved = 21 /\ endSquare[1] = 7),
          promotionChoice |-> promotionChoice,
          isEnPassantMove |-> isEnPassantMove,
          isCastleMove    |-> isCastleMove ]

\* an ordinary move, as the generators build it: Move((r, c), (er, ec), self.board)
PlainMove(r, c, er, ec, board) ==
    Move(<<r, c>>, <<er, ec>>, board, FALSE, FALSE, 0)

\* Move.colsToFiles and Move.rowsToRanks, indexed by col + 1 and row + 1
colsToFiles == <<"a", "b", "c", "d", "e", "f", "g", "h">>

rowsToRanks == <<"8", "7", "6", "5", "4", "3", "2", "1">>

\* Move.pieceToNotation, indexed by the piece type 1..6
pieceToNotation == <<"", "N", "B", "R", "Q", "K">>

\* Move.getRankFile
getRankFile(r, c) == colsToFiles[c + 1] \o rowsToRanks[r + 1]

\* Move.getChessNotation
getChessNotation(move) ==
    IF move.isCastleMove
      THEN IF move.startCol - move.endCol = 2 THEN "O - O - O" ELSE "O - O"
      ELSE pieceToNotation[move.pieceMoved % 10]
           \o getRankFile(move.startRow, move.startCol)
           \o (IF move.pieceCaptured # 0 THEN "x" ELSE "→")
           \o getRankFile(move.endRow, move.endCol)
           \o (IF move.isPawnPromotion
                 THEN "=" \o pieceToNotation[IF move.promotionChoice # 0
                                               THEN move.promotionChoice ELSE 5]
                 ELSE "")

getBoardHash(g) == <<g.board, g.whiteToMove>>

\* GameState.__init__
NewGameState ==
    LET g0 == [ board                |-> StartBoard,
                whiteToMove          |-> TRUE,
                moveLog              |-> << >>,
                whiteKingLocation    |-> <<7, 4>>,
                blackKingLocation    |-> <<0, 4>>,
                checkMate            |-> FALSE,
                draw                 |-> FALSE,
                enPassantPossible    |-> << >>,
                currentCastlingRight |-> CastleRight(TRUE, TRUE, TRUE, TRUE),
                castleRightsLog      |-> << CastleRight(TRUE, TRUE, TRUE, TRUE) >>,
                enPassantPossibleLog |-> << << >> >>,
                fiftyMoveCounter     |-> 0 ]
    IN  [ board                |-> g0.board,
          whiteToMove          |-> g0.whiteToMove,
          moveLog              |-> g0.moveLog,
          whiteKingLocation    |-> g0.whiteKingLocation,
          blackKingLocation    |-> g0.blackKingLocation,
          checkMate            |-> g0.checkMate,
          draw                 |-> g0.draw,
          enPassantPossible    |-> g0.enPassantPossible,
          currentCastlingRight |-> g0.currentCastlingRight,
          castleRightsLog      |-> g0.castleRightsLog,
          enPassantPossibleLog |-> g0.enPassantPossibleLog,
          positionCounts       |-> (getBoardHash(g0) :> 1),
          fiftyMoveCounter     |-> g0.fiftyMoveCounter ]

----------------------------------------------------------------------------
(* Move application and undo *)

\* updateCastleRights looking at the piece moved only
updateCastleRightsMoved(cr, move) ==
    IF move.pieceMoved = 16
      THEN [cr EXCEPT !.wks = FALSE, !.wqs = FALSE]
    ELSE IF move.pieceMoved = 26
      THEN [cr EXCEPT !.bks = FALSE, !.bqs = FALSE]
    ELSE IF move.pieceMoved = 14 /\ move.startRow = 7 /\ move.startCol = 0
      THEN [cr EXCEPT !.wqs = FALSE]
    ELSE IF move.pieceMoved = 14 /\ move.startRow = 7 /\ move.startCol = 7
      THEN [cr EXCEPT !.wks = FALSE]
    ELSE IF move.pieceMoved = 24 /\ move.startRow = 0 /\ move.startCol = 0
      THEN [cr EXCEPT !.bqs = FALSE]
    ELSE IF move.pieceMoved = 24 /\ move.startRow = 0 /\ move.startCol = 7
      THEN [cr EXCEPT !.bks = FALSE]
    ELSE cr

\* updateCastleRights without the part for a captured rook
updateCastleRightsNoCapture(cr, move) ==
    LET a == IF move.pieceMoved = 16
               THEN [cr EXCEPT !.wks = FALSE, !.wqs = FALSE]
             ELSE IF move.pieceMoved = 26
               THEN [cr EXCEPT !.bks = FALSE, !.bqs = FALSE]
             ELSE IF move.pieceMoved = 14
               THEN IF move.startRow = 7
                      THEN IF move.startCol = 0 THEN [cr EXCEPT !.wqs = FALSE]
                           ELSE IF move.startCol = 7 THEN [cr EXCEPT !.wks = FALSE]
                           ELSE cr
                      ELSE cr
             ELSE IF move.pieceMoved = 24
               THEN IF move.startRow = 0
                      THEN IF move.startCol = 0 THEN [cr EXCEPT !.bqs = FALSE]
                           ELSE IF move.startCol = 7 THEN [cr EXCEPT !.bks = FALSE]
                           ELSE cr
                      ELSE cr
             ELSE cr
    IN  a

\* GameState.updateCastleRights: the rights after `move`
updateCastleRights(cr, move) ==
    LET a == IF move.pieceMoved = 16
               THEN [cr EXCEPT !.wks = FALSE, !.wqs = FALSE]
             ELSE IF move.pieceMoved = 26
               THEN [cr EXCEPT !.bks = FALSE, !.bqs = FALSE]
             ELSE IF move.pieceMoved = 14
               THEN IF move.startRow = 7
                      THEN IF move.startCol = 0 THEN [cr EXCEPT !.wqs = FALSE]
                           ELSE IF move.startCol = 7 THEN [cr EXCEPT !.wks = FALSE]
                           ELSE cr
                      ELSE cr
             ELSE IF move.pieceMoved = 24
               THEN IF move.startRow = 0
                      THEN IF move.startCol = 0 THEN [cr EXCEPT !.bqs = FALSE]
                           ELSE IF move.startCol = 7 THEN [cr EXCEPT !.bks = FALSE]
                           ELSE cr
                      ELSE cr
             ELSE cr
    IN  IF move.pieceCaptured = 14
          THEN IF move.endRow = 7
                 THEN IF move.endCol = 0 THEN [a EXCEPT !.wqs = FALSE]
                      ELSE IF move.endCol = 7 THEN [a EXCEPT !.wks = FALSE]
                      ELSE a
                 ELSE a
        ELSE IF move.pieceCaptured = 24
          THEN IF move.endRow = 0
                 THEN IF move.endCol = 0 THEN [a EXCEPT !.bqs = FALSE]
                      ELSE IF move.endCol = 7 THEN [a EXCEPT !.bks = FALSE]
                      ELSE a
                 ELSE a
        ELSE a

\* CountUp that counts a position only the first time it occurs
CountUpOnce(pc, k) ==
    IF k \in DOMAIN pc THEN pc ELSE pc @@ (k :> 1)

\* positionCounts[k] += 1, or = 1 for a new key
CountUp(pc, k) ==
    IF k \in DOMAIN pc THEN [pc EXCEPT ![k] = @ + 1] ELSE pc @@ (k :> 1)

\* positionCounts[k] -= 1 for a key it holds, the key deleted at 0
\* CountDown that leaves a key whose count fell to zero in the dictionary
CountDownKeepZero(pc, k) ==
    IF k \in DOMAIN pc THEN [pc EXCEPT ![k] = @ - 1] ELSE pc

CountDown(pc, k) ==
    IF k \in DOMAIN pc
      THEN IF pc[k] - 1 = 0
             THEN [x \in DOMAIN pc \ {k} |-> pc[x]]
             ELSE [pc EXCEPT ![k] = @ - 1]
      ELSE pc

\* the promotion piece with the caller's choice ignored
promotionPieceQueen(move) == 5

\* promotionPiece leaving the pawn a pawn when the choice is unset
promotionPieceDefaultPawn(move) ==
    IF move.promotionChoice # 0 THEN move.promotionChoice ELSE 1

\* makeMove's promotionPiece: the choice, the queen when it is unset
promotionPiece(move) ==
    IF move.promotionChoice # 0 THEN move.promotionChoice ELSE 5

\* the board part of makeMove with the en passant capture emptying the
\* destination's neighbour on the capturer's side: (endRow, startCol)
makeMoveBoardWrongSquare(board, move) ==
    LET b1 == [board EXCEPT ![move.startRow][move.startCol] = 0]
        b2 == [b1 EXCEPT ![move.endRow][move.endCol] = move.pieceMoved]
        b3 == IF move.isPawnPromotion
                THEN [b2 EXCEPT ![move.endRow][move.endCol] =
                        (IF move.pieceMoved = 11 THEN 10 ELSE 20) + promotionPiece(move)]
                ELSE b2
        b4 == IF move.isEnPassantMove
                THEN [b3 EXCEPT ![move.endRow][move.startCol] = 0]
                ELSE b3
    IN  IF move.isCastleMove
          THEN IF move.endCol - move.startCol = 2
                 THEN [b4 EXCEPT ![move.endRow][move.endCol - 1] =
                                     b4[move.endRow][move.endCol + 1],
                                 ![move.endRow][move.endCol + 1] = 0]
                 ELSE [b4 EXCEPT ![move.endRow][move.endCol + 1] =
                                     b4[move.endRow][move.endCol - 2],
                                 ![move.endRow][move.endCol - 2] = 0]
          ELSE b4

\* makeMoveBoard taking the queenside rook from the square beside the king
makeMoveBoardRookNear(board, move) ==
    LET b1 == [board EXCEPT ![move.startRow][move.startCol] = 0]
        b2 == [b1 EXCEPT ![move.endRow][move.endCol] = move.pieceMoved]
        b3 == IF move.isPawnPromotion
                THEN [b2 EXCEPT ![move.endRow][move.endCol] =
                        (IF move.pieceMoved = 11 THEN 10 ELSE 20) + promotionPiece(move)]
                ELSE b2
        b4 == IF move.isEnPassantMove
                THEN [b3 EXCEPT ![move.startRow][move.endCol] = 0]
                ELSE b3
    IN  IF move.isCastleMove
          THEN IF move.endCol - move.startCol = 2
                 THEN [b4 EXCEPT ![move.endRow][move.endCol - 1] =
                                     b4[move.endRow][move.endCol + 1],
                                 ![move.endRow][move.endCol + 1] = 0]
                 ELSE [b4 EXCEPT ![move.endRow][move.endCol + 1] =
                                     b4[move.endRow][move.endCol - 1],
                                 ![move.endRow][move.endCol - 1] = 0]
          ELSE b4

\* the board part of makeMove, in the order of its assignments
makeMoveBoard(board, move) ==
    LET b1 == [board EXCEPT ![move.startRow][move.startCol] = 0]
        b2 == [b1 EXCEPT ![move.endRow][move.endCol] = move.pieceMoved]
        b3 == IF move.isPawnPromotion
                THEN [b2 EXCEPT ![move.endRow][move.endCol] =
                        (IF move.pieceMoved = 11 THEN 10 ELSE 20) + promotionPiece(move)]
                ELSE b2
        b4 == IF move.isEnPassantMove
                THEN [b3 EXCEPT ![move.startRow][move.endCol] = 0]
                ELSE b3
    IN  IF move.isCastleMove
          THEN IF move.endCol - move.startCol = 2
                 THEN [b4 EXCEPT ![move.endRow][move.endCol - 1] =
                                     b4[move.endRow][move.endCol + 1],
                                 ![move.endRow][move.endCol + 1] = 0]
                 ELSE [b4 EXCEPT ![move.endRow][move.endCol + 1] =
                                     b4[move.endRow][move.endCol - 2],
                                 ![move.endRow][move.endCol - 2] = 0]
          ELSE b4

\* makeMove recording the skipped square for any piece that moves two rows
makeMoveAnyPiece(g, move) ==
    LET board == makeMoveBoard(g.board, move)
        whiteToMove == ~g.whiteToMove
        enPassantPossible ==
            IF Abs(move.startRow - move.endRow) = 2
              THEN <<(move.startRow + move.endRow) \div 2, move.startCol>>
              ELSE << >>
        rights == updateCastleRights(g.currentCastlingRight, move)
        fiftyMoveCounter ==
            IF move.pieceMoved % 10 = 1 \/ move.pieceCaptured # 0
              THEN 0
              ELSE g.fiftyMoveCounter + 1
    IN  [ g EXCEPT
            !.board                = board,
            !.whiteToMove          = whiteToMove,
            !.whiteKingLocation    = IF move.pieceMoved = 16
                                       THEN <<move.endRow, move.endCol>> ELSE @,
            !.blackKingLocation    = IF move.pieceMoved = 26
                                       THEN <<move.endRow, move.endCol>> ELSE @,
            !.enPassantPossible    = enPassantPossible,
            !.enPassantPossibleLog = Append(@, enPassantPossible),
            !.currentCastlingRight = rights,
            !.castleRightsLog      = Append(@, rights),
            !.positionCounts       = CountUp(@, <<board, whiteToMove>>),
            !.fiftyMoveCounter     = fiftyMoveCounter,
            !.moveLog              = Append(@, <<move, fiftyMoveCounter>>) ]

\* GameState.makeMove
makeMove(g, move) ==
    LET board == makeMoveBoard(g.board, move)
        whiteToMove == ~g.whiteToMove
        enPassantPossible ==
            IF move.pieceMoved % 10 = 1 /\ Abs(move.startRow - move.endRow) = 2
              THEN <<(move.startRow + move.endRow) \div 2, move.startCol>>
              ELSE << >>
        rights == updateCastleRights(g.currentCastlingRight, move)
        fiftyMoveCounter ==
            IF move.pieceMoved % 10 = 1 \/ move.pieceCaptured # 0
              THEN 0
              ELSE g.fiftyMoveCounter + 1
    IN  [ g EXCEPT
            !.board                = board,
            !.whiteToMove          = whiteToMove,
            !.whiteKingLocation    = IF move.pieceMoved = 16
                                       THEN <<move.endRow, move.endCol>> ELSE @,
            !.blackKingLocation    = IF move.pieceMoved = 26
                                       THEN <<move.endRow, move.endCol>> ELSE @,
            !.enPassantPossible    = enPassantPossible,
            !.enPassantPossibleLog = Append(@, enPassantPossible),
            !.currentCastlingRight = rights,
            !.castleRightsLog      = Append(@, rights),
            !.positionCounts       = CountUp(@, <<board, whiteToMove>>),
            !.fiftyMoveCounter     = fiftyMoveCounter,
            !.moveLog              = Append(@, <<move, fiftyMoveCounter>>) ]

Pop(s) == SubSeq(s, 1, Len(s) - 1)

Top(s) == s[Len(s)]

\* undoMoveBoard leaving the king of a castle on its destination square
undoMoveBoardKingStays(board, move) ==
    LET b1 == [board EXCEPT ![move.startRow][move.startCol] = move.pieceMoved]
        b2 == IF move.isCastleMove
                THEN b1
                ELSE [b1 EXCEPT ![move.endRow][move.endCol] = move.pieceCaptured]
        b3 == IF move.isEnPassantMove
                THEN [b2 EXCEPT ![move.endRow][move.endCol] = 0,
                                ![move.startRow][move.endCol] = move.pieceCaptured]
                ELSE b2
    IN  IF move.isCastleMove
          THEN IF move.endCol - move.startCol = 2
                 THEN [b3 EXCEPT ![move.endRow][move.endCol + 1] =
                                     b3[move.endRow][move.endCol - 1],
                                 ![move.endRow][move.endCol - 1] = 0]
                 ELSE [b3 EXCEPT ![move.endRow][move.endCol - 2] =
                                     b3[move.endRow][move.endCol + 1],
                                 ![move.endRow][move.endCol + 1] = 0]
          ELSE b3

\* the board part of undoMove, in the order of its assignments
undoMoveBoard(board, move) ==
    LET b1 == [board EXCEPT ![move.startRow][move.startCol] = move.pieceMoved]
        b2 == [b1 EXCEPT ![move.endRow][move.endCol] = move.pieceCaptured]
        b3 == IF move.isEnPassantMove
                THEN [b2 EXCEPT ![move.endRow][move.endCol] = 0,
                                ![move.startRow][move.endCol] = move.pieceCaptured]
                ELSE b2
    IN  IF move.isCastleMove
          THEN IF move.endCol - move.startCol = 2
                 THEN [b3 EXCEPT ![move.endRow][move.endCol + 1] =
                                     b3[move.endRow][move.endCol - 1],
                                 ![move.endRow][move.endCol - 1] = 0]
                 ELSE [b3 EXCEPT ![move.endRow][move.endCol - 2] =
                                     b3[move.endRow][move.endCol + 1],
                                 ![move.endRow][move.endCol + 1] = 0]
          ELSE b3

\* UndoLast leaving the draw flag as it is
UndoLastKeepsDraw(g) ==
    LET move == Top(g.moveLog)[1]
        moveLog == Pop(g.moveLog)
        enPassantPossibleLog == Pop(g.enPassantPossibleLog)
        castleRightsLog == Pop(g.castleRightsLog)
    IN  [ g EXCEPT
            !.moveLog              = moveLog,
            !.positionCounts       = CountDown(@, getBoardHash(g)),
            !.board                = undoMoveBoard(@, move),
            !.whiteKingLocation    = IF move.pieceMoved = 16
                                       THEN <<move.startRow, move.startCol>> ELSE @,
            !.blackKingLocation    = IF move.pieceMoved = 26
                                       THEN <<move.startRow, move.startCol>> ELSE @,
            !.whiteToMove          = ~@,
            !.enPassantPossibleLog = enPassantPossibleLog,
            !.enPassantPossible    = IF Top(enPassantPossibleLog) # << >>
                                       THEN <<Top(enPassantPossibleLog)[1],
                                              Top(enPassantPossibleLog)[2]>>
                                       ELSE << >>,
            !.castleRightsLog      = castleRightsLog,
            !.currentCastlingRight = CastleRight(Top(castleRightsLog).wks,
                                                 Top(castleRightsLog).bks,
                                                 Top(castleRightsLog).wqs,
                                                 Top(castleRightsLog).bqs),
            !.fiftyMoveCounter     = IF Len(moveLog) # 0 THEN Top(moveLog)[2] ELSE 0,
            !.checkMate            = FALSE ]

\* UndoLast setting the half-move clock to 0
UndoLastClockZero(g) ==
    LET move == Top(g.moveLog)[1]
        moveLog == Pop(g.moveLog)
        enPassantPossibleLog == Pop(g.enPassantPossibleLog)
        castleRightsLog == Pop(g.castleRightsLog)
    IN  [ g EXCEPT
            !.moveLog              = moveLog,
            !.positionCounts       = CountDown(@, getBoardHash(g)),
            !.board                = undoMoveBoard(@, move),
            !.whiteKingLocation    = IF move.pieceMoved = 16
                                       THEN <<move.startRow, move.startCol>> ELSE @,
            !.blackKingLocation    = IF move.pieceMoved = 26
                                       THEN <<move.startRow, move.startCol>> ELSE @,
            !.whiteToMove          = ~@,
            !.enPassantPossibleLog = enPassantPossibleLog,
            !.enPassantPossible    = IF Top(enPassantPossibleLog) # << >>
                                       THEN <<Top(enPassantPossibleLog)[1],
                                              Top(enPassantPossibleLog)[2]>>
                                       ELSE << >>,
            !.castleRightsLog      = castleRightsLog,
            !.currentCastlingRight = CastleRight(Top(castleRightsLog).wks,
                                                 Top(castleRightsLog).bks,
                                                 Top(castleRightsLog).wqs,
                                                 Top(castleRightsLog).bqs),
            !.fiftyMoveCounter     = 0,
            !.checkMate            = FALSE,
            !.draw                 = FALSE ]

\* the body of undoMove, for a move log that is not empty
UndoLast(g) ==
    LET move == Top(g.moveLog)[1]
        moveLog == Pop(g.moveLog)
        enPassantPossibleLog == Pop(g.enPassantPossibleLog)
        castleRightsLog == Pop(g.castleRightsLog)
    IN  [ g EXCEPT
            !.moveLog              = moveLog,
            !.positionCounts       = CountDown(@, getBoardHash(g)),
            !.board                = undoMoveBoard(@, move),
            !.whiteKingLocation    = IF move.pieceMoved = 16
                                       THEN <<move.startRow, move.startCol>> ELSE @,
            !.blackKingLocation    = IF move.pieceMoved = 26
                                       THEN <<move.startRow, move.startCol>> ELSE @,
            !.whiteToMove          = ~@,
            !.enPassantPossibleLog = enPassantPossibleLog,
            !.enPassantPossible    = IF Top(enPassantPossibleLog) # << >>
                                       THEN <<Top(enPassantPossibleLog)[1],
                                              Top(enPassantPossibleLog)[2]>>
                                       ELSE << >>,
            !.castleRightsLog      = castleRightsLog,
            !.currentCastlingRight = CastleRight(Top(castleRightsLog).wks,
                                                 Top(castleRightsLog).bks,
                                                 Top(castleRightsLog).wqs,
                                                 Top(castleRightsLog).bqs),
            !.fiftyMoveCounter     = IF Len(moveLog) # 0 THEN Top(moveLog)[2] ELSE 0,
            !.checkMate            = FALSE,
            !.draw                 = FALSE ]

\* undoMove that passes the turn even when there is no move to take back
undoMoveAlways(g) ==
    IF Len(g.moveLog) # 0 THEN UndoLast(g) ELSE [g EXCEPT !.whiteToMove = ~@]

\* GameState.undoMove
undoMove(g) ==
    IF Len(g.moveLog) # 0 THEN UndoLast(g) ELSE g

----------------------------------------------------------------------------
(* The attack test *)

insideBoard(r, c) == 0 <= r /\ r < 8 /\ 0 <= c /\ c < 8

KnightDirections ==
    << <<2, 1>>, <<2, -1>>, <<-2, 1>>, <<-2, -1>>,
       <<1, 2>>, <<1, -2>>, <<-1, 2>>, <<-1, -2>> >>

\* the king's offsets as squareUnderAttack lists them
KingAttackDirections ==
    << <<0, 1>>, <<0, -1>>, <<1, 0>>, <<-1, 0>>,
       <<1, 1>>, <<1, -1>>, <<-1, 1>>, <<-1, -1>> >>

RookDirections == << <<0, 1>>, <<0, -1>>, <<1, 0>>, <<-1, 0>> >>

BishopDirections == << <<1, 1>>, <<1, -1>>, <<-1, 1>>, <<-1, -1>> >>

\* RayHits looking past the pieces that stand in the way
RECURSIVE RayHitsThrough(_, _, _, _, _, _, _, _)
RayHitsThrough(board, r, c, dr, dc, i, a, b) ==
    IF i >= 8 \/ ~insideBoard(r + dr * i, c + dc * i)
      THEN FALSE
      ELSE LET piece == board[r + dr * i][c + dc * i]
           IN  IF piece = a \/ piece = b
                 THEN TRUE
                 ELSE RayHitsThrough(board, r, c, dr, dc, i + 1, a, b)

\* one ray of squareUnderAttack: the first piece met from (r, c) along
\* (dr, dc), from step i on, is `a` or `b`
RECURSIVE RayHits(_, _, _, _, _, _, _, _)
RayHits(board, r, c, dr, dc, i, a, b) ==
    IF i >= 8 \/ ~insideBoard(r + dr * i, c + dc * i)
      THEN FALSE
      ELSE LET piece == board[r + dr * i][c + dc * i]
           IN  IF piece # 0
                 THEN piece = a \/ piece = b
                 ELSE RayHits(board, r, c, dr, dc, i + 1, a, b)

\* GameState.squareUnderAttack: (r, c) is attacked by the side not to move
squareUnderAttack(g, r, c) ==
    LET attackingColor == IF ~g.whiteToMove THEN 10 ELSE 20
        pawnDirection == IF attackingColor = 20 THEN -1 ELSE 1
    IN  \/ /\ insideBoard(r + pawnDirection, c - 1)
           /\ g.board[r + pawnDirection][c - 1] = attackingColor + 1
        \/ /\ insideBoard(r + pawnDirection, c + 1)
           /\ g.board[r + pawnDirection][c + 1] = attackingColor + 1
        \/ \E k \in 1..8 :
              /\ insideBoard(r + KnightDirections[k][1], c + KnightDirections[k][2])
              /\ g.board[r + KnightDirections[k][1]][c + KnightDirections[k][2]]
                   = attackingColor + 2
        \/ \E k \in 1..4 :
              RayHits(g.board, r, c, RookDirections[k][1], RookDirections[k][2], 1,
                      attackingColor + 4, attackingColor + 5)
        \/ \E k \in 1..4 :
              RayHits(g.board, r, c, BishopDirections[k][1], BishopDirections[k][2], 1,
                      attackingColor + 3, attackingColor + 5)
        \/ \E k \in 1..8 :
              /\ insideBoard(r + KingAttackDirections[k][1], c + KingAttackDirections[k][2])
              /\ g.board[r + KingAttackDirections[k][1]][c + KingAttackDirections[k][2]]
                   = attackingColor + 6

\* GameState.inCheck
inCheck(g) ==
    IF g.whiteToMove
      THEN squareUnderAttack(g, g.whiteKingLocation[1], g.whiteKingLocation[2])
      ELSE squareUnderAttack(g, g.blackKingLocation[1], g.blackKingLocation[2])

----------------------------------------------------------------------------
(* The move generators; each returns the moves it appends, in order *)

\* GameState.getPawnMoves
getPawnMoves(g, r, c) ==
    LET d == IF g.whiteToMove THEN -1 ELSE 1
        home == IF g.whiteToMove THEN 6 ELSE 1
        enemy == IF g.whiteToMove THEN 2 ELSE 1
        advance ==
            IF Cell(g.board, r + d, c) = 0
              THEN <<PlainMove(r, c, r + d, c, g.board)>>
                   \o (IF r = home /\ Cell(g.board, r + 2 * d, c) = 0
                         THEN <<PlainMove(r, c, r + 2 * d, c, g.board)>>
                         ELSE << >>)
              ELSE << >>
        capture(ec) ==
            IF Cell(g.board, r + d, ec) \div 10 = enemy
              THEN <<PlainMove(r, c, r + d, ec, g.board)>>
              ELSE IF <<r + d, ec>> = g.enPassantPossible
                THEN <<Move(<<r, c>>, <<r + d, ec>>, g.board, TRUE, FALSE, 0)>>
                ELSE << >>
    IN  advance
        \o (IF c - 1 >= 0 THEN capture(c - 1) ELSE << >>)
        \o (IF c + 1 < 8 THEN capture(c + 1) ELSE << >>)

\* one ray of getRookMoves / getBishopMoves from step i on: up to the board
\* edge, an own piece (excluded) or an enemy piece (included)
RECURSIVE Slide(_, _, _, _, _, _)
Slide(g, r, c, dr, dc, i) ==
    LET curr_turn == IF g.whiteToMove THEN 1 ELSE 2
        op_turn == IF g.whiteToMove THEN 2 ELSE 1
        er == r + dr * i
        ec == c + dc * i
    IN  IF ~insideBoard(er, ec) THEN << >>
        ELSE IF g.board[er][ec] \div 10 = curr_turn THEN << >>
        ELSE <<PlainMove(r, c, er, ec, g.board)>>
             \o (IF g.board[er][ec] \div 10 = op_turn
                   THEN << >>
                   ELSE Slide(g, r, c, dr, dc, i + 1))

\* GameState.getRookMoves: right, left, down, up
getRookMoves(g, r, c) ==
    Slide(g, r, c, 0, 1, 1) \o Slide(g, r, c, 0, -1, 1)
    \o Slide(g, r, c, 1, 0, 1) \o Slide(g, r, c, -1, 0, 1)

\* GameState.getBishopMoves: down-right, down-left, up-right, up-left
getBishopMoves(g, r, c) ==
    Slide(g, r, c, 1, 1, 1) \o Slide(g, r, c, 1, -1, 1)
    \o Slide(g, r, c, -1, 1, 1) \o Slide(g, r, c, -1, -1, 1)

\* GameState.getQueenMoves
getQueenMoves(g, r, c) == getRookMoves(g, r, c) \o getBishopMoves(g, r, c)

\* the fixed-offset moves of getKnightMoves / getKingMoves over `directions`
RECURSIVE Jumps(_, _, _, _, _)
Jumps(g, r, c, directions, k) ==
    IF k > Len(directions) THEN << >>
    ELSE LET er == r + directions[k][1]
             ec == c + directions[k][2]
             curr_turn == IF g.whiteToMove THEN 1 ELSE 2
         IN  (IF insideBoard(er, ec) /\ g.board[er][ec] \div 10 # curr_turn
                THEN <<PlainMove(r, c, er, ec, g.board)>>
                ELSE << >>)
             \o Jumps(g, r, c, directions, k + 1)

\* getKnightMoves with the first four offsets forgotten
getKnightMovesHalf(g, r, c) == Jumps(g, r, c, SubSeq(KnightDirections, 5, 8), 1)

\* GameState.getKnightMoves
getKnightMoves(g, r, c) == Jumps(g, r, c, KnightDirections, 1)

\* the king's offsets as getKingMoves lists them
KingMoveDirections ==
    << <<0, 1>>, <<0, -1>>, <<-1, 1>>, <<-1, -1>>,
       <<1, 0>>, <<-1, 0>>, <<1, 1>>, <<1, -1>> >>

\* GameState.getKingMoves
getKingMoves(g, r, c) == Jumps(g, r, c, KingMoveDirections, 1)

\* GameState.moveFunctions: the dispatch on piece % 10
moveFunctions(g, r, c) ==
    LET t == g.board[r][c] % 10
    IN  CASE t = 1 -> getPawnMoves(g, r, c)
          [] t = 2 -> getKnightMoves(g, r, c)
          [] t = 3 -> getBishopMoves(g, r, c)
          [] t = 4 -> getRookMoves(g, r, c)
          [] t = 5 -> getQueenMoves(g, r, c)
          [] t = 6 -> getKingMoves(g, r, c)

\* the promoting moves of a list once more, as promotions to a queen
QueenPromotions(moves) ==
    [i \in 1..Len(SelectSeq(moves, LAMBDA move : move.isPawnPromotion)) |->
        [SelectSeq(moves, LAMBDA move : move.isPawnPromotion)[i]
            EXCEPT !.promotionChoice = 5]]

\* SquareMoves listing a promoting pawn move once more with its piece chosen
SquareMovesPerPiece(g, r, c) ==
    LET piece == g.board[r][c]
    IN  IF piece # 0 /\ ((piece \div 10 = 1 /\ g.whiteToMove)
                         \/ (piece \div 10 = 2 /\ ~g.whiteToMove))
          THEN moveFunctions(g, r, c) \o QueenPromotions(moveFunctions(g, r, c))
          ELSE << >>

\* the body of the double loop of getAllPossibleMoves at (r, c)
SquareMoves(g, r, c) ==
    LET piece == g.board[r][c]
    IN  IF piece # 0 /\ ((piece \div 10 = 1 /\ g.whiteToMove)
                         \/ (piece \div 10 = 2 /\ ~g.whiteToMove))
          THEN moveFunctions(g, r, c)
          ELSE << >>

\* the inner loop of getAllPossibleMoves from column c on: for c in range(8)
RECURSIVE RowMoves(_, _, _)
RowMoves(g, r, c) ==
    IF c > 7 THEN << >> ELSE SquareMoves(g, r, c) \o RowMoves(g, r, c + 1)

\* the outer loop of getAllPossibleMoves from row r on: for r in range(8)
RECURSIVE BoardMoves(_, _)
BoardMoves(g, r) ==
    IF r > 7 THEN << >> ELSE RowMoves(g, r, 0) \o BoardMoves(g, r + 1)

\* GameState.getAllPossibleMoves
getAllPossibleMoves(g) == BoardMoves(g, 0)

\* getCastleMoves looking only at the king's destination square
getCastleMovesDestination(g, r, c) ==
    IF inCheck(g) THEN << >>
    ELSE
      (IF /\ (g.whiteToMove /\ g.currentCastlingRight.wks)
             \/ (~g.whiteToMove /\ g.currentCastlingRight.bks)
          /\ c + 2 < 8 /\ g.board[r][c + 1] = 0 /\ g.board[r][c + 2] = 0
          /\ ~squareUnderAttack(g, r, c + 2)
         THEN <<Move(<<r, c>>, <<r, c + 2>>, g.board, FALSE, TRUE, 0)>>
         ELSE << >>)
      \o
      (IF /\ (g.whiteToMove /\ g.currentCastlingRight.wqs)
             \/ (~g.whiteToMove /\ g.currentCastlingRight.bqs)
          /\ c - 3 >= 0 /\ g.board[r][c - 1] = 0 /\ g.board[r][c - 2] = 0
          /\ g.board[r][c - 3] = 0
          /\ ~squareUnderAttack(g, r, c - 2)
         THEN <<Move(<<r, c>>, <<r, c - 2>>, g.board, FALSE, TRUE, 0)>>
         ELSE << >>)

\* GameState.getCastleMoves
getCastleMoves(g, r, c) ==
    IF inCheck(g) THEN << >>
    ELSE
      (IF /\ (g.whiteToMove /\ g.currentCastlingRight.wks)
             \/ (~g.whiteToMove /\ g.currentCastlingRight.bks)
          /\ c + 2 < 8 /\ g.board[r][c + 1] = 0 /\ g.board[r][c + 2] = 0
          /\ ~squareUnderAttack(g, r, c + 1) /\ ~squareUnderAttack(g, r, c + 2)
         THEN <<Move(<<r, c>>, <<r, c + 2>>, g.board, FALSE, TRUE, 0)>>
         ELSE << >>)
      \o
      (IF /\ (g.whiteToMove /\ g.currentCastlingRight.wqs)
             \/ (~g.whiteToMove /\ g.currentCastlingRight.bqs)
          /\ c - 3 >= 0 /\ g.board[r][c - 1] = 0 /\ g.board[r][c - 2] = 0
          /\ g.board[r][c - 3] = 0
          /\ ~squareUnderAttack(g, r, c - 1) /\ ~squareUnderAttack(g, r, c - 2)
         THEN <<Move(<<r, c>>, <<r, c - 2>>, g.board, FALSE, TRUE, 0)>>
         ELSE << >>)

----------------------------------------------------------------------------
(* Legal moves and the terminal-state classification *)

\* the comprehension of insufficientMaterial: the pieces on the board in
\* row-major order
Pieces(board) ==
    LET flat == [n \in 1..64 |-> board[(n - 1) \div 8][(n - 1) % 8]]
        occupied(x) == x # 0
    IN  SelectSeq(flat, occupied)

\* list.count
Count(s, x) == Cardinality({i \in 1..Len(s) : s[i] = x})

\* x in list
In(x, s) == \E i \in 1..Len(s) : s[i] = x

\* GameState.insufficientMaterial
insufficientMaterial(g) ==
    LET pieces == Pieces(g.board)
        \* the squares n = 8 r + c holding 13, in row-major order
        bishops == SelectSeq([n \in 1..64 |-> n - 1],
                             LAMBDA n : g.board[n \div 8][n % 8] = 13)
        shade(n) == ((n \div 8) + (n % 8)) % 2
    IN  \/ pieces = <<16, 26>>
        \/ /\ Len(pieces) = 3 /\ In(16, pieces) /\ In(26, pieces)
           /\ (In(13, pieces) \/ In(12, pieces))
        \/ /\ Len(pieces) = 4 /\ In(16, pieces) /\ In(26, pieces)
           /\ Count(pieces, 13) = 2
           /\ shade(bishops[1]) = shade(bishops[2])

\* the candidates getValidMoves filters: getAllPossibleMoves() followed by
\* the castle moves of the side to move
Candidates(g) ==
    getAllPossibleMoves(g)
    \o (IF g.whiteToMove
          THEN getCastleMoves(g, g.whiteKingLocation[1], g.whiteKingLocation[2])
          ELSE getCastleMoves(g, g.blackKingLocation[1], g.blackKingLocation[2]))

\* the filter pass testing the check before the first flip of whiteToMove
TryMoveWrongSide(g, move) ==
    LET g1 == makeMove(g, move)
    IN  [gs |-> undoMove(g1), keep |-> ~inCheck(g1)]

\* the filter pass without the second flip of whiteToMove
TryMoveOneFlip(g, move) ==
    LET g1 == makeMove(g, move)
        g2 == [g1 EXCEPT !.whiteToMove = ~@]
    IN  [gs |-> undoMove(g2), keep |-> ~inCheck(g2)]

\* one pass of the filter loop of getValidMoves on `move`: the object after
\* makeMove, the two flips of whiteToMove and undoMove, and the verdict
TryMove(g, move) ==
    LET g1 == makeMove(g, move)
        g2 == [g1 EXCEPT !.whiteToMove = ~@]
        g3 == [g2 EXCEPT !.whiteToMove = ~@]
    IN  [gs |-> undoMove(g3), keep |-> ~inCheck(g2)]

\* the filter loop of getValidMoves over moves[i..], the object threaded through
RECURSIVE FilterMoves(_, _, _, _)
FilterMoves(g, moves, i, valid) ==
    IF i > Len(moves)
      THEN [gs |-> g, validMoves |-> valid]
      ELSE LET t == TryMove(g, moves[i])
           IN  IF t.keep
                 THEN FilterMoves(t.gs, moves, i + 1, Append(valid, moves[i]))
                 ELSE FilterMoves(t.gs, moves, i + 1, valid)

\* the branch of getValidMoves for an empty list: mate or stalemate
NoMoves(g) ==
    IF inCheck(g)
      THEN [gs |-> [g EXCEPT !.checkMate = TRUE], printed |-> << >>]
      ELSE [gs |-> [g EXCEPT !.draw = TRUE], printed |-> << >>]

\* the draw rules asking for a fourth occurrence of a position
DrawRulesFourfold(g) ==
    IF g.fiftyMoveCounter >= 100
      THEN [gs |-> [g EXCEPT !.draw = TRUE],
            printed |-> <<"Draw by 50-move rule">>]
    ELSE IF \E k \in DOMAIN g.positionCounts : g.positionCounts[k] > 3
      THEN [gs |-> [g EXCEPT !.draw = TRUE],
            printed |-> <<"Draw by threefold repetition">>]
    ELSE IF insufficientMaterial(g)
      THEN [gs |-> [g EXCEPT !.draw = TRUE],
            printed |-> <<"Draw by insufficient material">>]
    ELSE [gs |-> [g EXCEPT !.checkMate = FALSE, !.draw = FALSE], printed |-> << >>]

\* the draw rules with the clock compared one ply late
DrawRulesLate(g) ==
    IF g.fiftyMoveCounter > 100
      THEN [gs |-> [g EXCEPT !.draw = TRUE],
            printed |-> <<"Draw by 50-move rule">>]
    ELSE IF \E k \in DOMAIN g.positionCounts : g.positionCounts[k] >= 3
      THEN [gs |-> [g EXCEPT !.draw = TRUE],
            printed |-> <<"Draw by threefold repetition">>]
    ELSE IF insufficientMaterial(g)
      THEN [gs |-> [g EXCEPT !.draw = TRUE],
            printed |-> <<"Draw by insufficient material">>]
    ELSE [gs |-> [g EXCEPT !.checkMate = FALSE, !.draw = FALSE], printed |-> << >>]

\* the branches of getValidMoves for a list that is not empty: the draw
\* rules in the order they are tried, the flags after and the line printed
DrawRules(g) ==
    IF g.fiftyMoveCounter >= 100
      THEN [gs |-> [g EXCEPT !.draw = TRUE],
            printed |-> <<"Draw by 50-move rule">>]
    ELSE IF \E k \in DOMAIN g.positionCounts : g.positionCounts[k] >= 3
      THEN [gs |-> [g EXCEPT !.draw = TRUE],
            printed |-> <<"Draw by threefold repetition">>]
    ELSE IF insufficientMaterial(g)
      THEN [gs |-> [g EXCEPT !.draw = TRUE],
            printed |-> <<"Draw by insufficient material">>]
    ELSE [gs |-> [g EXCEPT !.checkMate = FALSE, !.draw = FALSE], printed |-> << >>]

\* the classification with the draw rules tried before the empty list
ClassifyDrawFirst(g, valid) ==
    IF DrawRules(g).gs.draw \/ Len(valid) # 0 THEN DrawRules(g) ELSE NoMoves(g)

\* the terminal-state classification of getValidMoves: the flags after the
\* call and the line printed
Classify(g, valid) ==
    IF Len(valid) = 0 THEN NoMoves(g) ELSE DrawRules(g)

\* what getValidMoves does after its filter loop: the comparison of
\* positionCounts with its copy from before, and the draw conditions
Report(before, f) ==
    LET c == Classify(f.gs, f.validMoves)
    IN  [ gs         |-> c.gs,
          validMoves |-> f.validMoves,
          printed    |-> (IF before # f.gs.positionCounts
                            THEN <<"=== positionCounts mutated during getValidMoves! ===">>
                            ELSE << >>) \o c.printed ]

\* GameState.getValidMoves: the object after the call, the list returned and
\* the lines printed
getValidMoves(g) ==
    Report(g.positionCounts, FilterMoves(g, Candidates(g), 1, << >>))

----------------------------------------------------------------------------
(* ChessEngineNb.py, the version of the engine written for Numba.  Its     *)
(* generators are module functions taking the board and the side to move;  *)
(* its GameState keeps the fields of ChessEngine's.  The operators carry   *)
(* the prefix Nb.  The field rightsShared is not a field of the source: it *)
(* is the index of the entry of castleRightsLog that is the very object    *)
(* currentCastlingRight (0: none), which undoMove makes it and which       *)
(* updateCastleRight then changes in place.                                *)

\* Move.__init__ (promotionChoice None is 0)
NbMove(startSquare, endSquare, board, isEnPassantMove, isCastleMove, promotionChoice) ==
    LET pieceMoved == Cell(board, startSquare[1], startSquare[2])
    IN  [ startRow        |-> startSquare[1],
          startCol        |-> startSquare[2],
          endRow          |-> endSquare[1],
          endCol          |-> endSquare[2],
          pieceMoved      |-> pieceMoved,
          pieceCaptured   |-> IF isEnPassantMove
                                THEN (IF pieceMoved = 21 THEN 11 ELSE 21)
                                ELSE Cell(board, endSquare[1], endSquare[2]),
          moveID          |-> startSquare[1] * 1000 + startSquare[2] * 100
                                + endSquare[1] * 10 + endSquare[2],
          pawnPromotion   |-> (pieceMoved = 11 /\ endSquare[1] = 0)
                                \/ (pieceMoved = 21 /\ endSquare[1] = 7),
          promotionChoice |-> promotionChoice,
          isEnPassantMove |-> isEnPassantMove,
          isCastleMove    |-> isCastleMove ]

\* Move((r, c), (er, ec), board)
NbPlainMove(r, c, er, ec, board) ==
    NbMove(<<r, c>>, <<er, ec>>, board, FALSE, FALSE, 0)

\* getPawnMoves
NbgetPawnMoves(board, r, c, white_to_move, en_passant_possible) ==
    LET d == IF white_to_move THEN -1 ELSE 1
        home == IF white_to_move THEN 6 ELSE 1
        enemy == IF white_to_move THEN 2 ELSE 1
        advance ==
            IF Cell(board, r + d, c) = 0
              THEN <<NbPlainMove(r, c, r + d, c, board)>>
                   \o (IF r = home /\ Cell(board, r + 2 * d, c) = 0
                         THEN <<NbPlainMove(r, c, r + 2 * d, c, board)>>
                         ELSE << >>)
              ELSE << >>
        capture(ec) ==
            IF Cell(board, r + d, ec) \div 10 = enemy
              THEN <<NbPlainMove(r, c, r + d, ec, board)>>
              ELSE IF en_passant_possible[1] = r + d /\ en_passant_possible[2] = ec
                THEN <<NbMove(<<r, c>>, <<r + d, ec>>, board, TRUE, FALSE, 0)>>
                ELSE << >>
    IN  advance
        \o (IF c - 1 >= 0 THEN capture(c - 1) ELSE << >>)
        \o (IF c + 1 < 8 THEN capture(c + 1) ELSE << >>)

\* one loop of getRookMoves / getBishopMoves from step i on
RECURSIVE NbSlide(_, _, _, _, _, _, _)
NbSlide(board, r, c, dr, dc, i, white_to_move) ==
    LET curr_turn == IF white_to_move THEN 1 ELSE 2
        op_turn == IF white_to_move THEN 2 ELSE 1
        er == r + dr * i
        ec == c + dc * i
    IN  IF ~insideBoard(er, ec) THEN << >>
        ELSE IF board[er][ec] \div 10 = curr_turn THEN << >>
        ELSE <<NbPlainMove(r, c, er, ec, board)>>
             \o (IF board[er][ec] \div 10 = op_turn
                   THEN << >>
                   ELSE NbSlide(board, r, c, dr, dc, i + 1, white_to_move))

\* getRookMoves: right, left, down, up
NbgetRookMoves(board, r, c, white_to_move) ==
    NbSlide(board, r, c, 0, 1, 1, white_to_move)
    \o NbSlide(board, r, c, 0, -1, 1, white_to_move)
    \o NbSlide(board, r, c, 1, 0, 1, white_to_move)
    \o NbSlide(board, r, c, -1, 0, 1, white_to_move)

\* getBishopMoves
NbgetBishopMoves(board, r, c, white_to_move) ==
    NbSlide(board, r, c, 1, 1, 1, white_to_move)
    \o NbSlide(board, r, c, 1, -1, 1, white_to_move)
    \o NbSlide(board, r, c, -1, 1, 1, white_to_move)
    \o NbSlide(board, r, c, -1, -1, 1, white_to_move)

\* getQueenMoves
NbgetQueenMoves(board, r, c, white_to_move) ==
    NbgetRookMoves(board, r, c, white_to_move)
    \o NbgetBishopMoves(board, r, c, white_to_move)

\* the loop of getKnightMoves / getKingMoves over `directions`
RECURSIVE NbJumps(_, _, _, _, _, _)
NbJumps(board, r, c, directions, k, white_to_move) ==
    IF k > Len(directions) THEN << >>
    ELSE LET nr == r + directions[k][1]
             nc == c + directions[k][2]
             curr_turn == IF white_to_move THEN 1 ELSE 2
         IN  (IF insideBoard(nr, nc) /\ board[nr][nc] \div 10 # curr_turn
                THEN <<NbPlainMove(r, c, nr, nc, board)>>
                ELSE << >>)
             \o NbJumps(board, r, c, directions, k + 1, white_to_move)

\* getKnightMoves
NbgetKnightMoves(board, r, c, white_to_move) ==
    NbJumps(board, r, c,
            << <<2, 1>>, <<2, -1>>, <<-2, 1>>, <<-2, -1>>,
               <<1, 2>>, <<1, -2>>, <<-1, 2>>, <<-1, -2>> >>, 1, white_to_move)

\* getKingMoves
NbgetKingMoves(board, r, c, white_to_move) ==
    NbJumps(board, r, c,
            << <<0, 1>>, <<0, -1>>, <<-1, 1>>, <<-1, -1>>,
               <<1, 0>>, <<-1, 0>>, <<1, 1>>, <<1, -1>> >>, 1, white_to_move)

\* one while loop of squareUnderAttack: the first piece met from (nr, nc)
\* on along (dr, dc) is `a` or `b`
RECURSIVE NbRayHits(_, _, _, _, _, _, _)
NbRayHits(board, nr, nc, dr, dc, a, b) ==
    IF ~insideBoard(nr, nc)
      THEN FALSE
      ELSE IF board[nr][nc] # 0
        THEN board[nr][nc] = a \/ board[nr][nc] = b
        ELSE NbRayHits(board, nr + dr, nc + dc, dr, dc, a, b)

\* squareUnderAttack(board, r, c, white_to_move): the attacker is Black
\* when white_to_move is true
NbsquareUnderAttack(board, r, c, white_to_move) ==
    LET attacking_color == IF white_to_move THEN 20 ELSE 10
        pawn_dir == IF attacking_color = 20 THEN 1 ELSE -1
        at(dirs, piece) ==
            \E k \in 1..Len(dirs) :
                /\ insideBoard(r + dirs[k][1], c + dirs[k][2])
                /\ board[r + dirs[k][1]][c + dirs[k][2]] = piece
        ray(dirs, a, b) ==
            \E k \in 1..Len(dirs) :
                NbRayHits(board, r + dirs[k][1], c + dirs[k][2],
                          dirs[k][1], dirs[k][2], a, b)
    IN  \/ at(<< <<pawn_dir, -1>>, <<pawn_dir, 1>> >>, attacking_color + 1)
        \/ at(<< <<2, 1>>, <<2, -1>>, <<-2, 1>>, <<-2, -1>>,
                 <<1, 2>>, <<1, -2>>, <<-1, 2>>, <<-1, -2>> >>, attacking_color + 2)
        \/ ray(<< <<1, 1>>, <<1, -1>>, <<-1, 1>>, <<-1, -1>> >>,
               attacking_color + 3, attacking_color + 5)
        \/ ray(<< <<0, 1>>, <<0, -1>>, <<1, 0>>, <<-1, 0>> >>,
               attacking_color + 4, attacking_color + 5)
        \/ at(<< <<0, 1>>, <<0, -1>>, <<1, 0>>, <<-1, 0>>,
                 <<1, 1>>, <<1, -1>>, <<-1, 1>>, <<-1, -1>> >>, attacking_color + 6)

\* getCastleMoves
NbgetCastleMoves(board, r, c, white_to_move, castle_rights, king_location) ==
    IF NbsquareUnderAttack(board, king_location[1], king_location[2], ~white_to_move)
      THEN << >>
    ELSE
      (IF /\ (white_to_move /\ castle_rights.wks)
             \/ (~white_to_move /\ castle_rights.bks)
          /\ Cell(board, r, c + 1) = 0 /\ Cell(board, r, c + 2) = 0
          /\ ~NbsquareUnderAttack(board, r, c + 1, ~white_to_move)
          /\ ~NbsquareUnderAttack(board, r, c + 2, ~white_to_move)
         THEN <<NbMove(<<r, c>>, <<r, c + 2>>, board, FALSE, TRUE, 0)>>
         ELSE << >>)
      \o
      (IF /\ (white_to_move /\ castle_rights.wqs)
             \/ (~white_to_move /\ castle_rights.bqs)
          /\ Cell(board, r, c - 1) = 0 /\ Cell(board, r, c - 2) = 0
          /\ Cell(board, r, c - 3) = 0
          /\ ~NbsquareUnderAttack(board, r, c - 1, ~white_to_move)
          /\ ~NbsquareUnderAttack(board, r, c - 2, ~white_to_move)
         THEN <<NbMove(<<r, c>>, <<r, c - 2>>, board, FALSE, TRUE, 0)>>
         ELSE << >>)

\* GameState.__init__
NbNewGameState ==
    [ board                |-> StartBoard,
      whiteToMove          |-> TRUE,
      moveLog              |-> << >>,
      whiteKingLocation    |-> <<7, 4>>,
      blackKingLocation    |-> <<0, 4>>,
      checkMate            |-> FALSE,
      draw                 |-> FALSE,
      enPassantPossible    |-> <<-1, -1>>,
      enPassantPossibleLog |-> << <<-1, -1>> >>,
      currentCastlingRight |-> CastleRight(TRUE, TRUE, TRUE, TRUE),
      castleRightsLog      |-> << CastleRight(TRUE, TRUE, TRUE, TRUE) >>,
      rightsShared         |-> 0,
      fiftyMoveCounter     |-> 0,
      positionCounts       |-> << >> ]

\* GameState.getBoardHash: the bytes of the board and the side to move
NbgetBoardHash(n) == <<n.board, n.whiteToMove>>

\* GameState.updateCastleRight: the rights after `move`
NbupdateCastleRight(cr, move) ==
    LET a == IF move.pieceMoved = 16
               THEN [cr EXCEPT !.wks = FALSE, !.wqs = FALSE]
             ELSE IF move.pieceMoved = 26
               THEN [cr EXCEPT !.bks = FALSE, !.bqs = FALSE]
             ELSE IF move.pieceMoved = 14
               THEN IF move.startRow = 7
                      THEN IF move.startCol = 0 THEN [cr EXCEPT !.wqs = FALSE]
                           ELSE IF move.startCol = 7 THEN [cr EXCEPT !.wks = FALSE]
                           ELSE cr
                      ELSE cr
             ELSE IF move.pieceMoved = 24
               THEN IF move.startRow = 0
                      THEN IF move.startCol = 0 THEN [cr EXCEPT !.bqs = FALSE]
                           ELSE IF move.startCol = 7 THEN [cr EXCEPT !.bks = FALSE]
                           ELSE cr
                      ELSE cr
             ELSE cr
    IN  IF move.pieceCaptured = 14
          THEN IF move.endRow = 7
                 THEN IF move.endCol = 0 THEN [a EXCEPT !.wqs = FALSE]
                      ELSE IF move.endCol = 7 THEN [a EXCEPT !.wks = FALSE]
                      ELSE a
                 ELSE a
        ELSE IF move.pieceCaptured = 24
          THEN IF move.endRow = 0
                 THEN IF move.endCol = 0 THEN [a EXCEPT !.bqs = FALSE]
                      ELSE IF move.endCol = 7 THEN [a EXCEPT !.bks = FALSE]
                      ELSE a
                 ELSE a
        ELSE a

\* the board part of makeMove, in the order of its assignments
NbmakeMoveBoard(board, move) ==
    LET b1 == [board EXCEPT ![move.startRow][move.startCol] = 0]
        b2 == [b1 EXCEPT ![move.endRow][move.endCol] = move.pieceMoved]
        b3 == IF move.pawnPromotion
                THEN [b2 EXCEPT ![move.endRow][move.endCol] =
                        (IF move.pieceMoved = 11 THEN 10 ELSE 20)
                        + (IF move.promotionChoice # 0 THEN move.promotionChoice ELSE 5)]
                ELSE b2
        b4 == IF move.isEnPassantMove
                THEN [b3 EXCEPT ![move.startRow][move.endCol] = 0]
                ELSE b3
    IN  IF move.isCastleMove
          THEN IF move.endCol - move.startCol = 2
                 THEN [b4 EXCEPT ![move.endRow][move.endCol - 1] =
                                     b4[move.endRow][move.endCol + 1],
                                 ![move.endRow][move.endCol + 1] = 0]
                 ELSE [b4 EXCEPT ![move.endRow][move.endCol + 1] =
                                     b4[move.endRow][move.endCol - 2],
                                 ![move.endRow][move.endCol - 2] = 0]
          ELSE b4

\* GameState.makeMove
NbmakeMove(n, move) ==
    LET board == NbmakeMoveBoard(n.board, move)
        whiteToMove == ~n.whiteToMove
        enPassantPossible ==
            IF move.pieceMoved % 10 = 1 /\ Abs(move.startRow - move.endRow) = 2
              THEN <<(move.startRow + move.endRow) \div 2, move.startCol>>
              ELSE <<-1, -1>>
        rights == NbupdateCastleRight(n.currentCastlingRight, move)
        \* the entry of the log that is the object changed in place
        log == IF n.rightsShared # 0
                 THEN [n.castleRightsLog EXCEPT ![n.rightsShared] = rights]
                 ELSE n.castleRightsLog
        fiftyMoveCounter ==
            IF move.pieceMoved % 10 = 1 \/ move.pieceCaptured # 0
              THEN 0
              ELSE n.fiftyMoveCounter + 1
    IN  [ n EXCEPT
            !.board                = board,
            !.whiteToMove          = whiteToMove,
            !.whiteKingLocation    = IF move.pieceMoved = 16
                                       THEN <<move.endRow, move.endCol>> ELSE @,
            !.blackKingLocation    = IF move.pieceMoved = 26
                                       THEN <<move.endRow, move.endCol>> ELSE @,
            !.enPassantPossible    = enPassantPossible,
            !.enPassantPossibleLog = Append(@, enPassantPossible),
            !.currentCastlingRight = rights,
            !.castleRightsLog      = Append(log, rights),
            !.positionCounts       = CountUp(@, <<board, whiteToMove>>),
            !.fiftyMoveCounter     = fiftyMoveCounter,
            !.moveLog              = Append(@, <<move, fiftyMoveCounter>>) ]

\* the board part of undoMove, in the order of its assignments
NbundoMoveBoard(board, move) ==
    LET b1 == [board EXCEPT ![move.startRow][move.startCol] = move.pieceMoved]
        b2 == [b1 EXCEPT ![move.endRow][move.endCol] = move.pieceCaptured]
        b3 == IF move.isEnPassantMove
                THEN [b2 EXCEPT ![move.endRow][move.endCol] = 0,
                                ![move.startRow][move.endCol] = move.pieceCaptured]
                ELSE b2
    IN  IF move.isCastleMove
          THEN IF move.endCol - move.startCol = 2
                 THEN [b3 EXCEPT ![move.endRow][move.endCol + 1] =
                                     b3[move.endRow][move.endCol - 1],
                                 ![move.endRow][move.endCol - 1] = 0]
                 ELSE [b3 EXCEPT ![move.endRow][move.endCol - 2] =
                                     b3[move.endRow][move.endCol + 1],
                                 ![move.endRow][move.endCol + 1] = 0]
          ELSE b3

\* GameState.undoMove
NbundoMove(n) ==
    IF Len(n.moveLog) = 0 THEN n
    ELSE
      LET move == Top(n.moveLog)[1]
          moveLog == Pop(n.moveLog)
          enPassantPossibleLog == Pop(n.enPassantPossibleLog)
          castleRightsLog == Pop(n.castleRightsLog)
      IN  [ n EXCEPT
              !.moveLog              = moveLog,
              !.positionCounts       = CountDown(@, NbgetBoardHash(n)),
              !.board                = NbundoMoveBoard(@, move),
              !.whiteKingLocation    = IF move.pieceMoved = 16
                                         THEN <<move.startRow, move.startCol>> ELSE @,
              !.blackKingLocation    = IF move.pieceMoved = 26
                                         THEN <<move.startRow, move.startCol>> ELSE @,
              !.whiteToMove          = ~@,
              !.enPassantPossibleLog = enPassantPossibleLog,
              !.enPassantPossible    = IF Len(enPassantPossibleLog) > 0
                                         THEN Top(enPassantPossibleLog) ELSE @,
              !.castleRightsLog      = castleRightsLog,
              !.currentCastlingRight = IF Len(castleRightsLog) > 0
                                         THEN Top(castleRightsLog) ELSE @,
              !.rightsShared         = IF Len(castleRightsLog) > 0
                                         THEN Len(castleRightsLog) ELSE @,
              !.fiftyMoveCounter     = IF Len(moveLog) > 0 THEN Top(moveLog)[2] ELSE 0,
              !.checkMate            = FALSE,
              !.draw                 = FALSE ]

\* the body of the double loop of getAllPossibleMoves at (r, c)
NbSquareMoves(n, r, c) ==
    LET piece == n.board[r][c]
        piece_type == piece % 10
    IN  IF piece # 0 /\ ((piece \div 10 = 1 /\ n.whiteToMove)
                         \/ (piece \div 10 = 2 /\ ~n.whiteToMove))
          THEN CASE piece_type = 1 ->
                      NbgetPawnMoves(n.board, r, c, n.whiteToMove, n.enPassantPossible)
                 [] piece_type = 2 -> NbgetKnightMoves(n.board, r, c, n.whiteToMove)
                 [] piece_type = 3 -> NbgetBishopMoves(n.board, r, c, n.whiteToMove)
                 [] piece_type = 4 -> NbgetRookMoves(n.board, r, c, n.whiteToMove)
                 [] piece_type = 5 -> NbgetQueenMoves(n.board, r, c, n.whiteToMove)
                 [] piece_type = 6 -> NbgetKingMoves(n.board, r, c, n.whiteToMove)
                 [] OTHER -> << >>
          ELSE << >>

\* the loops of getAllPossibleMoves from square 8 r + c = k on
RECURSIVE NbBoardMoves(_, _)
NbBoardMoves(n, k) ==
    IF k > 63 THEN << >>
    ELSE NbSquareMoves(n, k \div 8, k % 8) \o NbBoardMoves(n, k + 1)

\* GameState.getAllPossibleMoves
NbgetAllPossibleMoves(n) == NbBoardMoves(n, 0)

\* one pass of the filter loop of getValidMoves: the move is put on the
\* board, the king's square is tested and the move is taken back
NbKeeps(n, move) ==
    LET board == [n.board EXCEPT ![move.endRow][move.endCol] = move.pieceMoved,
                                 ![move.startRow][move.startCol] = 0]
        whiteKingLocation == IF move.pieceMoved = 16
                               THEN <<move.endRow, move.endCol>>
                               ELSE n.whiteKingLocation
        blackKingLocation == IF move.pieceMoved = 26
                               THEN <<move.endRow, move.endCol>>
                               ELSE n.blackKingLocation
        in_check == IF n.whiteToMove
                      THEN NbsquareUnderAttack(board, whiteKingLocation[1],
                                               whiteKingLocation[2], FALSE)
                      ELSE NbsquareUnderAttack(board, blackKingLocation[1],
                                               blackKingLocation[2], TRUE)
    IN  ~in_check

\* GameState.getValidMoves: the list returned (the object is left as it was)
NbgetValidMoves(n) ==
    LET moves == NbgetAllPossibleMoves(n)
                 \o (IF n.whiteToMove
                       THEN NbgetCastleMoves(n.board, n.whiteKingLocation[1],
                                n.whiteKingLocation[2], n.whiteToMove,
                                n.currentCastlingRight, n.whiteKingLocation)
                       ELSE NbgetCastleMoves(n.board, n.blackKingLocation[1],
                                n.blackKingLocation[2], n.whiteToMove,
                                n.currentCastlingRight, n.blackKingLocation))
        keeps(move) == NbKeeps(n, move)
    IN  SelectSeq(moves, keeps)

----------------------------------------------------------------------------
(* The search of SmartMoveFinder.py.  Scores are counted in hundredths:    *)
(* every term of scoreBoard is a multiple of 0.05, so the sums of the      *)
(* source are exact integers here (the rounding of Python's floats is not  *)
(* modelled).  The search works on a GameState object it mutates: every    *)
(* operator takes the object and gives back the object after the call.     *)
(* The dict transpositionTable is a function whose domain is its key set;  *)
(* the key hash(str(gs.board)) is modelled by the board it hashes.         *)

\* pieceScore, indexed by the piece type 1..6
pieceScore == <<150, 450, 450, 750, 1350, 0>>

kightScore ==
    << <<1, 1, 1, 1, 1, 1, 1, 1>>,
       <<1, 2, 2, 2, 2, 2, 2, 1>>,
       <<1, 2, 3, 3, 3, 3, 2, 1>>,
       <<1, 2, 3, 4, 4, 3, 2, 1>>,
       <<1, 2, 3, 4, 4, 3, 2, 1>>,
       <<1, 2, 3, 3, 3, 3, 2, 1>>,
       <<1, 2, 2, 2, 2, 2, 2, 1>>,
       <<1, 1, 1, 1, 1, 1, 1, 1>> >>

bishopScore ==
    << <<4, 3, 2, 1, 1, 2, 3, 4>>,
       <<3, 4, 3, 2, 2, 3, 4, 3>>,
       <<2, 3, 4, 3, 3, 4, 3, 2>>,
       <<1, 2, 3, 4, 4, 3, 2, 1>>,
       <<1, 2, 3, 4, 4, 3, 2, 1>>,
       <<2, 3, 4, 3, 3, 4, 3, 2>>,
       <<3, 4, 3, 2, 2, 3, 4, 3>>,
       <<4, 3, 2, 1, 1, 2, 3, 4>> >>

queenScore ==
    << <<1, 1, 1, 3, 1, 1, 1, 1>>,
       <<1, 2, 3, 3, 3, 1, 1, 1>>,
       <<1, 4, 3, 3, 3, 4, 2, 1>>,
       <<1, 2, 3, 3, 3, 2, 2, 1>>,
       <<1, 2, 3, 3, 3, 2, 2, 1>>,
       <<1, 4, 3, 3, 3, 4, 2, 1>>,
       <<1, 2, 3, 3, 3, 1, 1, 1>>,
       <<1, 1, 1, 3, 1, 1, 1, 1>> >>

rookScore ==
    << <<4, 3, 4, 4, 4, 4, 3, 4>>,
       <<4, 4, 4, 4, 4, 4, 4, 4>>,
       <<1, 1, 2, 3, 3, 2, 1, 1>>,
       <<1, 2, 3, 4, 4, 3, 2, 1>>,
       <<1, 2, 3, 4, 4, 3, 2, 1>>,
       <<1, 1, 2, 3, 3, 2, 1, 1>>,
       <<4, 4, 4, 4, 4, 4, 4, 4>>,
       <<4, 3, 4, 4, 4, 4, 3, 4>> >>

whitePawnScore ==
    << <<8, 8, 8, 8, 8, 8, 8, 8>>,
       <<8, 8, 8, 8, 8, 8, 8, 8>>,
       <<5, 6, 6, 7, 7, 6, 6, 5>>,
       <<2, 3, 3, 5, 5, 3, 3, 2>>,
       <<1, 2, 3, 4, 4, 3, 2, 1>>,
       <<1, 1, 2, 3, 3, 2, 1, 1>>,
       <<1, 1, 1, 0, 0, 1, 1, 1>>,
       <<0, 0, 0, 0, 0, 0, 0, 0>> >>

blackPawnScore ==
    << <<0, 0, 0, 0, 0, 0, 0, 0>>,
       <<1, 1, 1, 0, 0, 1, 1, 1>>,
       <<1, 1, 2, 3, 3, 2, 1, 1>>,
       <<1, 2, 3, 4, 4, 3, 2, 1>>,
       <<2, 3, 3, 5, 5, 3, 3, 2>>,
       <<5, 6, 6, 7, 7, 6, 6, 5>>,
       <<8, 8, 8, 8, 8, 8, 8, 8>>,
       <<8, 8, 8, 8, 8, 8, 8, 8>> >>

\* the dict piecePositionScores: the table of a key
piecePositionScores(key) ==
    CASE key = 2  -> kightScore
      [] key = 3  -> bishopScore
      [] key = 5  -> queenScore
      [] key = 4  -> rookScore
      [] key = 11 -> whitePawnScore
      [] key = 21 -> blackPawnScore

\* CHECKMATE and DRAW, in the units of the source
CHECKMATE == 1000000

DRAW == 0

\* None, the value getMove returns for an empty list
None == [none |-> TRUE]

\* f[0] + ... + f[n]
RECURSIVE SumUpTo(_, _)
SumUpTo(f, n) == IF n < 0 THEN 0 ELSE f[n] + SumUpTo(f, n - 1)

\* what the material loop of scoreBoard adds for the square (row, col)
SquareScore(board, row, col) ==
    LET square == board[row][col]
        piecePositionScore ==
            IF square % 10 # 6
              THEN (IF square % 10 = 1
                      THEN piecePositionScores(square)[row + 1][col + 1]
                      ELSE piecePositionScores(square % 10)[row + 1][col + 1])
              ELSE 0
    IN  IF square = 0 THEN 0
        ELSE IF square \div 10 = 1
          THEN pieceScore[square % 10] + piecePositionScore * 5
        ELSE IF square \div 10 = 2
          THEN -(pieceScore[square % 10] + piecePositionScore * 5)
        ELSE 0

\* evaluateKingSafety
evaluateKingSafety(g, isWhite) ==
    LET kingPosition == IF isWhite THEN g.whiteKingLocation ELSE g.blackKingLocation
        kingRow == kingPosition[1]
        kingCol == kingPosition[2]
        pawnRow == IF isWhite THEN kingRow - 1 ELSE kingRow + 1
    IN  (IF 2 <= kingRow /\ kingRow <= 5 /\ 2 <= kingCol /\ kingCol <= 5
           THEN -200 ELSE 0)
        + (IF /\ 0 <= pawnRow /\ pawnRow < 8
              /\ kingCol - 1 >= 0 /\ g.board[pawnRow][kingCol - 1] % 10 = 1
             THEN 200 ELSE 0)
        + (IF /\ 0 <= pawnRow /\ pawnRow < 8
              /\ kingCol + 1 < 8 /\ g.board[pawnRow][kingCol + 1] % 10 = 1
             THEN 200 ELSE 0)

\* evaluatePawnStructure: doubled pawns, then connected pawns
evaluatePawnStructure(g) ==
    LET inCol(pawn, col) == Cardinality({row \in 0..7 : g.board[row][col] = pawn})
        doubled(col) ==
            (IF inCol(11, col) > 1 THEN -20 * (inCol(11, col) - 1) ELSE 0)
            + (IF inCol(21, col) > 1 THEN 20 * (inCol(21, col) - 1) ELSE 0)
        beside(pawn, row, col) ==
            (IF col - 1 >= 0 /\ g.board[row][col - 1] = pawn THEN 10 ELSE 0)
            + (IF col + 1 < 8 /\ g.board[row][col + 1] = pawn THEN 10 ELSE 0)
        connected(row, col) ==
            IF g.board[row][col] = 11 THEN beside(11, row, col)
            ELSE IF g.board[row][col] = 21 THEN -beside(21, row, col)
            ELSE 0
    IN  SumUpTo([col \in 0..7 |-> doubled(col)], 7)
        + SumUpTo([row \in 0..7 |->
                     SumUpTo([col \in 0..7 |-> connected(row, col)], 7)], 7)

\* scoreBoard without its two early returns: material and position, king
\* safety, the centre, the pawn structure and the mobility of the side to
\* move, `moves` being len(gs.getValidMoves())
Evaluation(g, moves) ==
    SumUpTo([row \in 0..7 |->
               SumUpTo([col \in 0..7 |-> SquareScore(g.board, row, col)], 7)], 7)
    + evaluateKingSafety(g, TRUE) - evaluateKingSafety(g, FALSE)
    + SumUpTo([k \in 0..3 |->
                 LET piece == g.board[3 + (k \div 2)][3 + (k % 2)]
                 IN  IF piece \div 10 = 1 THEN 100
                     ELSE IF piece \div 10 = 2 THEN -100 ELSE 0], 3)
    + evaluatePawnStructure(g)
    + (IF g.whiteToMove THEN 5 * moves ELSE -5 * moves)

\* how scoreBoard ends once gs.getValidMoves() has given res
Scored(g, res) ==
    [gs |-> res.gs, score |-> Evaluation(g, Len(res.validMoves))]

\* scoreBoard: the object after the call and the score.  The flags it
\* reads are those the last getValidMoves or undoMove left on the object.
scoreBoard(g) ==
    IF g.checkMate
      THEN [gs |-> g,
            score |-> IF g.whiteToMove THEN -100 * CHECKMATE ELSE 100 * CHECKMATE]
    ELSE IF g.draw
      THEN [gs |-> g, score |-> 100 * DRAW]
    ELSE Scored(g, getValidMoves(g))

\* moveHeuristic after endScore = scoreBoard(gs): gs.undoMove(), and the
\* difference of the two scores
Difference(startScore, end) ==
    [gs |-> undoMove(end.gs), diff |-> end.score - startScore]

\* moveHeuristic after startScore = scoreBoard(gs): gs.makeMove(move),
\* endScore = scoreBoard(gs)
EndScore(start, move) ==
    Difference(start.score, scoreBoard(makeMove(start.gs, move)))

RECURSIVE moveHeuristic(_, _, _, _)

\* the key of moves[i], h being the object after moveHeuristic's undoMove
\* and the difference of the scores, and the keys of the moves after it
Keyed(h, moves, i, keys) ==
    IF h.gs.whiteToMove
      THEN moveHeuristic(h.gs, moves, i + 1, Append(keys, h.diff))
      ELSE moveHeuristic(h.gs, moves, i + 1, Append(keys, -h.diff))

\* the keys moveHeuristic gives moves[i..], computed in list order as
\* sorted() does, the object threaded through
moveHeuristic(g, moves, i, keys) ==
    IF i > Len(moves)
      THEN [gs |-> g, keys |-> keys]
      ELSE Keyed(EndScore(scoreBoard(g), moves[i]), moves, i, keys)

\* the list sorted by the keys h.keys, largest first; sorted() is stable:
\* moves with equal keys keep their order in the list
Sorted(h, moves) ==
    LET n == Len(moves)
        rank == [i \in 1..n |->
                    Cardinality({j \in 1..n :
                        \/ h.keys[j] > h.keys[i]
                        \/ (h.keys[j] = h.keys[i] /\ j < i)}) + 1]
    IN  [gs |-> h.gs,
         moves |-> [p \in 1..n |-> moves[CHOOSE i \in 1..n : rank[i] = p]]]

\* orderMoves: sorted(validMoves, key=moveHeuristic, reverse=True)
orderMoves(g, moves) == Sorted(moveHeuristic(g, moves, 1, << >>), moves)

\* validMoves[:10]
FirstTen(moves) ==
    SubSeq(moves, 1, IF Len(moves) < 10 THEN Len(moves) ELSE 10)

RECURSIVE findMoveNegaMaxAlphaBeta(_, _, _, _, _, _)
RECURSIVE SearchMoves(_, _, _, _, _, _, _, _)

\* The search state s holds the object (gs), the process's
\* transpositionTable (table), the pairs <<depth of the caller, depth
\* passed>> of the calls of findMoveNegaMaxAlphaBeta made so far (calls) and
\* the value the call that returned last gave (score).  hits records the
\* calls that returned from the table: the board and side to move of the
\* call, its depth and the entry it found.  returns records, for every call
\* that has returned, its depth, whether its loop was left by a cut (cut,
\* kept in the search state until the return), whether the object had on
\* return the position and log lengths it had on entry, the checkMate and
\* draw flags of the object on entry and the value returned.

\* the call one level down, as parallelEvaluateMove and the loop of
\* findMoveNegaMaxAlphaBeta make it once gs.makeMove(move) and
\* nextMoves = gs.getValidMoves() have given res
Descend(s, res, depth, alpha, beta, turnMultiplier) ==
    findMoveNegaMaxAlphaBeta(
        [s EXCEPT !.gs = res.gs, !.calls = @ \cup {<<depth, depth - 1>>}],
        res.validMoves, depth - 1, -beta, -alpha, -turnMultiplier)

\* Continue leaving the loop at a cut before gs.undoMove()
ContinueCutFirst(r, moves, i, depth, alpha, beta, turnMultiplier, maxScore) ==
    LET score == -r.score
        newMax == IF score > maxScore THEN score ELSE maxScore
        newAlpha == IF newMax > alpha THEN newMax ELSE alpha
    IN  IF newAlpha >= beta
          THEN [r EXCEPT !.score = newMax, !.cut = TRUE]
          ELSE SearchMoves([r EXCEPT !.gs = undoMove(r.gs), !.score = newMax],
                           moves, i + 1, depth, newAlpha, beta, turnMultiplier,
                           newMax)

\* the loop of findMoveNegaMaxAlphaBeta once the call for validMoves[i] has
\* returned r: the new maximum, gs.undoMove(), the new alpha and the cut
Continue(r, moves, i, depth, alpha, beta, turnMultiplier, maxScore) ==
    LET score == -r.score
        newMax == IF score > maxScore THEN score ELSE maxScore
        newAlpha == IF newMax > alpha THEN newMax ELSE alpha
    IN  IF newAlpha >= beta
          THEN [r EXCEPT !.gs = undoMove(r.gs), !.score = newMax, !.cut = TRUE]
          ELSE SearchMoves([r EXCEPT !.gs = undoMove(r.gs), !.score = newMax],
                           moves, i + 1, depth, newAlpha, beta, turnMultiplier,
                           newMax)

\* the loop of findMoveNegaMaxAlphaBeta over validMoves[i..]
SearchMoves(s, moves, i, depth, alpha, beta, turnMultiplier, maxScore) ==
    IF i > Len(moves)
      THEN [s EXCEPT !.score = maxScore, !.cut = FALSE]
      ELSE Continue(Descend(s, getValidMoves(makeMove(s.gs, moves[i])),
                            depth, alpha, beta, turnMultiplier),
                    moves, i, depth, alpha, beta, turnMultiplier, maxScore)

\* findMoveNegaMaxAlphaBeta at depth 0: turnMultiplier * scoreBoard(gs)
Leaf(s, leaf, turnMultiplier) ==
    [s EXCEPT !.gs = leaf.gs, !.score = turnMultiplier * leaf.score, !.cut = FALSE]

\* findMoveNegaMaxAlphaBeta from validMoves = orderMoves(gs, validMoves) to
\* the end of its loop
SearchOrdered(s, ordered, depth, alpha, beta, turnMultiplier) ==
    SearchMoves([s EXCEPT !.gs = ordered.gs], FirstTen(ordered.moves), 1, depth,
                alpha, beta, turnMultiplier, -100 * CHECKMATE)

\* transpositionTable[boardHash] = (depth, maxScore); return maxScore.  The
\* third component is not in the dict: it records gs.whiteToMove at the
\* assignment.
Stored(boardHash, depth, done) ==
    [done EXCEPT !.table =
        (boardHash :> <<depth, done.score, done.gs.whiteToMove>>) @@ @]

\* what findMoveNegaMaxAlphaBeta is to leave as it found it: the position
\* and the lengths of the three logs
SearchFrame(g) ==
    [ board                |-> g.board,
      whiteToMove          |-> g.whiteToMove,
      whiteKingLocation    |-> g.whiteKingLocation,
      blackKingLocation    |-> g.blackKingLocation,
      currentCastlingRight |-> g.currentCastlingRight,
      enPassantPossible    |-> g.enPassantPossible,
      fiftyMoveCounter     |-> g.fiftyMoveCounter,
      positionCounts       |-> g.positionCounts,
      logs                 |-> <<Len(g.moveLog), Len(g.castleRightsLog),
                                 Len(g.enPassantPossibleLog)>> ]

\* a call of findMoveNegaMaxAlphaBeta entered with the object g has
\* returned r: the return is recorded with the flags of g and the value
\* returned
Noted(g, depth, r) ==
    [r EXCEPT !.returns = @ \cup {[depth     |-> depth,
                                   cut       |-> r.cut,
                                   restored  |-> SearchFrame(r.gs) = SearchFrame(g),
                                   checkMate |-> g.checkMate,
                                   draw      |-> g.draw,
                                   score     |-> r.score]}]

\* findMoveNegaMaxAlphaBeta: the search state after the call, its score
\* being the value returned
findMoveNegaMaxAlphaBeta(s, moves, depth, alpha, beta, turnMultiplier) ==
    LET boardHash == s.gs.board
    IN  Noted(s.gs, depth,
          IF boardHash \in DOMAIN s.table /\ s.table[boardHash][1] >= depth
            THEN [s EXCEPT !.score = s.table[boardHash][2],
                           !.cut = FALSE,
                           !.hits = @ \cup {[board       |-> boardHash,
                                             whiteToMove |-> s.gs.whiteToMove,
                                             depth       |-> depth,
                                             entry       |-> s.table[boardHash]]}]
          ELSE IF depth = 0
            THEN Leaf(s, scoreBoard(s.gs), turnMultiplier)
          ELSE Stored(boardHash, depth,
                      SearchOrdered(s, orderMoves(s.gs, moves), depth, alpha, beta,
                                    turnMultiplier)))

\* parallelEvaluateMove ending without gs.undoMove()
ReturnedNotUndone(r) ==
    [r EXCEPT !.score = -r.score]

\* how parallelEvaluateMove ends once the search has returned r:
\* gs.undoMove(), and the score with its sign changed
Returned(r) ==
    [r EXCEPT !.gs = undoMove(r.gs), !.score = -r.score]

\* parallelEvaluateMove((gs, move, depth, alpha, beta, turnMultiplier)) in a
\* worker process whose search state is s
parallelEvaluateMove(s, move, depth, alpha, beta, turnMultiplier) ==
    Returned(Descend(s, getValidMoves(makeMove(s.gs, move)),
                     depth, alpha, beta, turnMultiplier))

----------------------------------------------------------------------------
(* The games played.  The callers (ChessMain.main, the search of           *)
(* SmartMoveFinder) pass makeMove a move of the list getValidMoves         *)
(* returned for the current position, with a promotion piece attached.     *)
(* The moves offered to the model are those of a book of games: a game is  *)
(* a sequence of entries moveID + 10000 * promotionChoice.                 *)

\* the longest game played
MaxPly == 20

\* the promotion pieces BoardDisplay.promotionMenu offers, and 0 for the
\* unset choice of a move played by the search
PromotionChoices == {0, 2, 3, 4, 5}

Entry(move) == move.moveID + 10000 * move.promotionChoice

\* the knights go out and back: g1f3 g8f6 f3g1 f6g8, over and over
Shuffle(n) == [i \in 1..n |-> <<7655, 625, 5576, 2506>>[((i - 1) % 4) + 1]]

\* fool's mate: f2f3 e7e5 g2g4 d8h4#
FoolsMate == <<6555, 1434, 6646, 347>>

\* Sam Loyd's stalemate: e3 a5 Qh5 Ra6 Qxa5 h5 h4 Rah6 Qxc7 f6 Qxd7+ Kf7
\* Qxb7 Qd3 Qxb8 Qh7 Qxc8 Kg6 Qe6
LoydStalemate ==
    <<6454, 1030, 7337, 20, 3730, 1737, 6747, 2027, 3012, 1525,
      1213, 415, 1311, 353, 1101, 5317, 102, 1526, 224>>

\* the first nine plies of the promotion games: a4 b5 axb5 a6 bxa6 Bb7 axb7
\* Nc6, then bxa8 promoting
ToPromotion == <<6040, 1131, 4031, 1020, 3120, 211, 2011, 122>>

Book ==
    << Shuffle(MaxPly),
       FoolsMate,
       \* the start position three times, then fool's mate
       Shuffle(8) \o FoolsMate,
       LoydStalemate,
       \* en passant by White: e4 a6 e5 d5 exd6 cxd6
       <<6444, 1020, 4434, 1333, 3423, 1223>>,
       \* en passant not taken at once: e4 a6 e5 d5 a3 a5 h3
       <<6444, 1020, 4434, 1333, 6050, 2030, 6757>>,
       \* two capturers: e4 a6 e5 h6 c4 h5 c5 d5 cxd6 exd6
       <<6444, 1020, 4434, 1727, 6242, 2737, 4232, 1333, 3223, 1423>>,
       \* en passant by Black: a3 e5 a4 e4 d4 exd3 cxd3
       <<6050, 1434, 5040, 3444, 6343, 4453, 6253>>,
       \* the capturer is pinned on the e-file: e4 e5 f4 exf4 e5 Qe7 a3 d5 Nf3
       <<6444, 1434, 6545, 3445, 4434, 314, 6050, 1333, 7655>>,
       \* both sides castle short: e4 e5 Nf3 Nf6 Bc4 Bc5 O-O O-O Re1
       <<6444, 1434, 7655, 625, 7542, 532, 7476, 406, 7574>>,
       \* both sides castle long, b1 attacked by the bishop on f5:
       \* d4 d5 c4 Bf5 Nc3 Nc6 Bf4 Qd7 Qd2 e6 O-O-O O-O-O Re1
       <<6343, 1333, 6242, 235, 7152, 122, 7245, 313, 7363, 1424, 7472, 402, 7374>>,
       \* f1 attacked by the bishop on a6: g3 b6 Bg2 Ba6 e3 Nf6 Nf3 e6 h3
       <<6656, 1121, 7566, 220, 6454, 625, 7655, 1424, 6757>>,
       \* a check on e1: e4 e5 Nf3 Nf6 Bc4 Bc5 d3 Bb4+ c3 Bc5 O-O
       <<6444, 1434, 7655, 625, 7542, 532, 6353, 3241, 6252, 4132, 7476>>,
       \* the rooks leave h1, h8 and return: Nf3 Nf6 Rg1 Rg8 Rh1 Rh8 e4 e5
       \* Be2 Be7 Kf1
       <<7655, 625, 7776, 706, 7677, 607, 6444, 1434, 7564, 514, 7475>>,
       \* a white rook takes on a8 and leaves it: h4 a5 Rh3 h6 Ra3 h5 Rxa5 g6
       \* Rxa8 g5 Ra5
       <<6747, 1030, 7757, 1727, 5750, 2737, 5030, 1626, 3000, 2636, 30>>,
       \* bxa8 promoting to queen, knight, rook, bishop or unset, then Qxa8
       ToPromotion \o <<51100, 300>>,
       ToPromotion \o <<21100, 300>>,
       ToPromotion \o <<41100, 300>>,
       ToPromotion \o <<31100, 300>>,
       ToPromotion \o <<1100, 300>>,
       \* Black promotes to a rook: b4 a5 Nf3 axb4 Ng1 b3 Nf3 bxa2 Ng1
       \* axb1=R Rxb1
       <<6141, 1030, 7655, 3041, 5576, 4151, 7655, 5160, 5576, 46071, 7071>> >>

\* the values makeMove takes as promotionChoice when it is called directly:
\* unset, or the code of any piece type
AnyChoices == 0..6

\* the book, and bxa8 promoting to a king and to a pawn
ApiBook ==
    Book \o << ToPromotion \o <<61100>>, ToPromotion \o <<11100>> >>

\* the games of the long run: a hundred plies and more without a pawn move
\* or a capture, the same with a pawn move, a capture or an en passant
\* capture inside
LongPly == 104

LongBook ==
    << Shuffle(LongPly),
       \* a3 a6 after 48 plies
       Shuffle(48) \o <<6050, 1020>> \o Shuffle(LongPly - 50),
       \* Nf3 Nf6 Ne5 Ne4 Nxf7 Nxf2 after 92 plies
       Shuffle(92) \o <<7655, 625, 5534, 2544, 3415, 4465>>,
       \* e4 a6 e5 d5 exd6 (en passant) cxd6
       <<6444, 1020, 4434, 1333, 3423, 1223>> >>

\* `move` continues a game of `book` whose first plies are the move log
Allowed(book, moveLog, move) ==
    \E k \in 1..Len(book) :
        /\ Len(book[k]) > Len(moveLog)
        /\ book[k][Len(moveLog) + 1] = Entry(move)
        /\ \A j \in 1..Len(moveLog) : book[k][j] = Entry(moveLog[j][1])

\* the fields of the position, without the terminal flags and the logs
Position(g) ==
    [ board                |-> g.board,
      whiteToMove          |-> g.whiteToMove,
      whiteKingLocation    |-> g.whiteKingLocation,
      blackKingLocation    |-> g.blackKingLocation,
      currentCastlingRight |-> g.currentCastlingRight,
      enPassantPossible    |-> g.enPassantPossible,
      fiftyMoveCounter     |-> g.fiftyMoveCounter,
      positionCounts       |-> g.positionCounts ]

\* no call of getMove yet: DEPTH has the value the module gives it, the
\* input is a row of SearchCases (0: none)
Idle(input) ==
    [ phase     |-> "idle",
      input     |-> input,
      DEPTH     |-> 2,
      processes |-> 0,
      tasks     |-> << >>,
      next      |-> 1,
      tables    |-> << >>,
      calls     |-> {},
      hits      |-> {},
      returns   |-> {},
      results   |-> << >>,
      nextMove  |-> None ]

\* the object of ChessEngineNb after construction, no list asked for yet
NbIdle == [gs |-> NbNewGameState, validMoves |-> << >>]

Init ==
    /\ gs = NewGameState
    /\ validMoves = << >>
    /\ fresh = FALSE
    /\ printed = << >>
    /\ lastOp = "new"
    /\ snaps = << >>
    /\ pre = [gs |-> NewGameState, snap |-> Position(NewGameState)]
    /\ ai = Idle(0)
    /\ nb = NbIdle

\* validMoves = gs.getValidMoves(); the caller is not inside getMove
GetValidMoves ==
    /\ ai.phase # "map"
    /\ \E res \in {getValidMoves(gs)} :
         /\ gs' = res.gs
         /\ validMoves' = res.validMoves
         /\ printed' = res.printed
    /\ fresh' = TRUE
    /\ lastOp' = "getValidMoves"
    /\ pre' = [gs |-> gs, snap |-> Position(gs)]
    /\ UNCHANGED <<snaps, ai, nb>>

\* gs.makeMove(move) for a move of validMoves with a promotion piece of
\* `choices` attached, the game staying in `book` and within `maxPly` plies.
\* The caller's list is for the position left: it is dropped.
MakeMoveWith(book, maxPly, choices) ==
    /\ fresh
    /\ Len(gs.moveLog) < maxPly
    /\ \E i \in 1..Len(validMoves), choice \in choices :
         LET move == [validMoves[i] EXCEPT !.promotionChoice = choice]
         IN  /\ choice # 0 => validMoves[i].isPawnPromotion
             /\ Allowed(book, gs.moveLog, move)
             /\ gs' = makeMove(gs, move)
    /\ validMoves' = << >>
    /\ printed' = << >>
    /\ fresh' = FALSE
    /\ lastOp' = "makeMove"
    /\ snaps' = Append(snaps, Position(gs))
    /\ pre' = [gs |-> gs, snap |-> Position(gs)]
    /\ UNCHANGED <<ai, nb>>

\* makeMove as ChessMain calls it: the promotion piece comes from the menu
MakeMoveIn(book, maxPly) == MakeMoveWith(book, maxPly, PromotionChoices)

MakeMove == MakeMoveIn(Book, MaxPly)

MakeLongMove == MakeMoveIn(LongBook, LongPly)

\* gs.undoMove(); the caller's list is dropped as in MakeMove
UndoMove ==
    /\ gs' = undoMove(gs)
    /\ validMoves' = << >>
    /\ printed' = << >>
    /\ fresh' = FALSE
    /\ lastOp' = "undoMove"
    /\ snaps' = IF Len(snaps) # 0 THEN Pop(snaps) ELSE snaps
    /\ pre' = [gs |-> gs, snap |-> IF Len(snaps) # 0 THEN Top(snaps) ELSE Position(gs)]
    /\ UNCHANGED <<ai, nb>>

Next == GetValidMoves \/ MakeMove \/ UndoMove

Spec == Init /\ [][Next]_vars

\* makeMove called with any piece code as promotionChoice
MakeAnyMove == MakeMoveWith(ApiBook, MaxPly, AnyChoices)

NextApi == GetValidMoves \/ MakeAnyMove \/ UndoMove

\* the games of the book and those that promote to a king or to a pawn
SpecApi == Init /\ [][NextApi]_vars

NextLong == GetValidMoves \/ MakeLongMove \/ UndoMove

\* the long games, for the fifty-move rule
SpecFifty == Init /\ [][NextLong]_vars

----------------------------------------------------------------------------
(* The calls of SmartMoveFinder.getMove.  findBestMove hands the root     *)
(* moves to a pool of worker processes: Pool.map cuts the list of tasks    *)
(* into chunks, a free worker takes the next chunk and runs its tasks one  *)
(* after the other.  A chunk is pickled as a whole, so its tasks share one *)
(* copy of the caller's GameState; a worker keeps its transpositionTable   *)
(* from one task to the next, and from one chunk to the next.              *)

\* a GameState whose board holds `pieces` (triples <<row, col, piece>>) and
\* nothing else, without castling rights, the other fields as __init__
\* leaves them
Endgame(pieces, whiteToMove) ==
    LET board == [r \in 0..7 |-> [c \in 0..7 |->
                    IF \E p \in pieces : p[1] = r /\ p[2] = c
                      THEN (CHOOSE p \in pieces : p[1] = r /\ p[2] = c)[3]
                      ELSE 0]]
        king(k) == CHOOSE sq \in (0..7) \X (0..7) : board[sq[1]][sq[2]] = k
        g0 == [NewGameState EXCEPT
                  !.board = board,
                  !.whiteToMove = whiteToMove,
                  !.whiteKingLocation = king(16),
                  !.blackKingLocation = king(26),
                  !.currentCastlingRight = CastleRight(FALSE, FALSE, FALSE, FALSE),
                  !.castleRightsLog = << CastleRight(FALSE, FALSE, FALSE, FALSE) >>]
    IN  [g0 EXCEPT !.positionCounts = (getBoardHash(g0) :> 1)]

\* the positions searched, with the values of DEPTH (ChessMain sets 2, 3 or
\* 4) and the sizes of the pool (Pool() starts one worker per processor)
\* tried on each
SearchCases ==
    << \* Kf1 Rh6 against Kd1 and pawns e2, h2: White is in check
       [ pieces      |-> {<<7, 5, 16>>, <<7, 3, 26>>, <<2, 7, 14>>,
                          <<6, 7, 21>>, <<6, 4, 21>>},
         whiteToMove |-> TRUE, depths |-> {2, 3}, processes |-> {1, 2} ],
       \* Kf1 Bb2 against Kb1 and pawns g2, h7: White is in check
       [ pieces      |-> {<<7, 5, 16>>, <<7, 1, 26>>, <<6, 1, 13>>,
                          <<1, 7, 21>>, <<6, 6, 21>>},
         whiteToMove |-> TRUE, depths |-> {2}, processes |-> {1, 2} ],
       \* Kc3 Rd4 against Kf6, Black to move
       [ pieces      |-> {<<5, 2, 16>>, <<4, 3, 14>>, <<2, 5, 26>>},
         whiteToMove |-> FALSE, depths |-> {2}, processes |-> {1} ],
       \* Kc3 Rd4 against Kf6, White to move
       [ pieces      |-> {<<5, 2, 16>>, <<4, 3, 14>>, <<2, 5, 26>>},
         whiteToMove |-> TRUE, depths |-> {2}, processes |-> {1} ],
       \* Kh1 against Kg3 and Ra1: White is mated
       [ pieces      |-> {<<7, 7, 16>>, <<5, 6, 26>>, <<7, 0, 24>>},
         whiteToMove |-> TRUE, depths |-> {2, 3}, processes |-> {1, 2} ],
       \* Ka1 against Kb3 and Qc2: White is stalemated
       [ pieces      |-> {<<7, 0, 16>>, <<5, 1, 26>>, <<6, 2, 25>>},
         whiteToMove |-> TRUE, depths |-> {2, 3}, processes |-> {1, 2} ],
       \* Kc8 Rh1 against Ka8: Ra1 mates, Rh7 stalemates
       [ pieces      |-> {<<0, 2, 16>>, <<0, 0, 26>>, <<7, 7, 14>>},
         whiteToMove |-> TRUE, depths |-> {2}, processes |-> {1} ] >>

InitSearch ==
    \E k \in 1..Len(SearchCases) :
        /\ gs = Endgame(SearchCases[k].pieces, SearchCases[k].whiteToMove)
        /\ validMoves = << >>
        /\ fresh = FALSE
        /\ printed = << >>
        /\ lastOp = "new"
        /\ snaps = << >>
        /\ pre = [gs |-> gs, snap |-> Position(gs)]
        /\ ai = Idle(k)
        /\ nb = NbIdle

\* the chunk size rounded down
ChunksizeRoundedDown(n, processes) == n \div (4 * processes)

\* the chunk size Pool.map takes for n tasks: divmod(n, 4 * processes),
\* rounded up
Chunksize(n, processes) ==
    IF n % (4 * processes) # 0
      THEN n \div (4 * processes) + 1
      ELSE n \div (4 * processes)

\* mapstar: a worker runs the tasks j..last of one chunk on the chunk's copy
\* of the GameState.  The search state after, and for each task the pair
\* (score, move) returned and, as history, the object the task found (seen).
RECURSIVE mapstar(_, _, _, _, _, _, _)

\* the task j of a chunk has returned r, having found the object `seen`:
\* its result is kept and the next task starts
Collect(r, seen, tasks, j, last, depth, turnMultiplier, out) ==
    IF r.score \in Int
      THEN mapstar(r, tasks, j + 1, last, depth, turnMultiplier,
                   Append(out, [score |-> r.score, move |-> tasks[j],
                                seen |-> seen]))
      ELSE [s |-> r, results |-> out]

mapstar(s, tasks, j, last, depth, turnMultiplier, out) ==
    IF j > last
      THEN [s |-> s, results |-> out]
      ELSE Collect(parallelEvaluateMove(s, tasks[j], depth, -100 * CHECKMATE,
                                        100 * CHECKMATE, turnMultiplier),
                   s.gs, tasks, j, last, depth, turnMultiplier, out)

\* max keeping the last of the results with the largest score
RECURSIVE MaxResultLast(_, _, _)
MaxResultLast(results, i, best) ==
    IF i > Len(results)
      THEN best
      ELSE MaxResultLast(results, i + 1,
                         IF results[i].score >= results[best].score THEN i ELSE best)

\* max(results, key=lambda x: x[0]) over results[i..]: the index of the
\* first result no later one beats, best being the best before i
RECURSIVE MaxResult(_, _, _)
MaxResult(results, i, best) ==
    IF i > Len(results)
      THEN best
      ELSE MaxResult(results, i + 1,
                     IF results[i].score > results[best].score THEN i ELSE best)

\* getMove starting the pool whatever the list holds
getMoveAlwaysSearch(call, moves, depth, processes) ==
    [call EXCEPT !.phase = "map", !.DEPTH = depth,
                 !.processes = processes,
                 !.tasks = moves,
                 !.tables = [w \in 1..processes |-> << >>]]

\* getMove up to the start of pool.map, DEPTH being `depth` and Pool()
\* starting `processes` workers with empty tables: None at once for an empty
\* list
getMove(call, moves, depth, processes) ==
    IF Len(moves) = 0
      THEN [call EXCEPT !.phase = "returned", !.DEPTH = depth, !.nextMove = None]
      ELSE [call EXCEPT !.phase = "map", !.DEPTH = depth,
                        !.processes = processes,
                        !.tasks = moves,
                        !.tables = [w \in 1..processes |-> << >>]]

\* SmartMoveFinder.DEPTH = ...; move = SmartMoveFinder.getMove(gs, validMoves)
GetMove ==
    /\ fresh
    /\ ai.phase = "idle"
    /\ \E depth \in SearchCases[ai.input].depths,
          processes \in SearchCases[ai.input].processes :
         ai' = getMove(ai, validMoves, depth, processes)
    /\ lastOp' = "getMove"
    /\ UNCHANGED <<gs, validMoves, fresh, printed, snaps, pre, nb>>

\* a worker of the pool takes the next chunk and evaluates its root moves
EvaluateChunk ==
    /\ ai.phase = "map"
    /\ ai.next <= Len(ai.tasks)
    /\ \E w \in 1..ai.processes :
         LET size == Chunksize(Len(ai.tasks), ai.processes)
             last == IF ai.next + size - 1 < Len(ai.tasks)
                       THEN ai.next + size - 1 ELSE Len(ai.tasks)
         IN  \E out \in {mapstar([gs |-> gs, table |-> ai.tables[w],
                                  calls |-> ai.calls, hits |-> ai.hits,
                                  returns |-> ai.returns, cut |-> FALSE,
                                  score |-> 0],
                                 ai.tasks, ai.next, last, ai.DEPTH,
                                 IF gs.whiteToMove THEN 1 ELSE -1, << >>)} :
                ai' = [ai EXCEPT !.next = last + 1,
                                 !.tables[w] = out.s.table,
                                 !.calls = out.s.calls,
                                 !.hits = out.s.hits,
                                 !.returns = out.s.returns,
                                 !.results = @ \o out.results]
    /\ UNCHANGED <<gs, validMoves, fresh, printed, lastOp, snaps, pre, nb>>

\* pool.map has all the results: findBestMove puts the best move on the
\* queue and getMove returns it
ReturnMove ==
    /\ ai.phase = "map"
    /\ ai.next > Len(ai.tasks)
    /\ ai' = [ai EXCEPT !.phase = "returned",
                        !.nextMove = ai.results[MaxResult(ai.results, 1, 1)].move]
    /\ UNCHANGED <<gs, validMoves, fresh, printed, lastOp, snaps, pre, nb>>

NextSearch == GetValidMoves \/ GetMove \/ EvaluateChunk \/ ReturnMove

\* the calls of getMove on the positions of SearchCases
SpecSearch == InitSearch /\ [][NextSearch]_vars

\* EvaluateChunk can be taken: it takes at least one task, so that it
\* changes `next`, and is enabled exactly when this holds
CanEvaluate == ai.phase = "map" /\ ai.next <= Len(ai.tasks)

\* ReturnMove can be taken
CanReturn == ai.phase = "map" /\ ai.next > Len(ai.tasks)

\* the same with the pool at work: a worker takes the next chunk as long as
\* there is one, and findBestMove goes on once pool.map has every result.
\* This is WF_vars(EvaluateChunk) /\ WF_vars(ReturnMove) with the enabling
\* conditions written out.
FairSearch ==
    /\ SpecSearch
    /\ ([]<>~CanEvaluate \/ []<><<EvaluateChunk>>_vars)
    /\ ([]<>~CanReturn \/ []<><<ReturnMove>>_vars)

--------------------------------------------------------------------------
\* Properties.  What follows states the rules of chess and the claims about
\* the engine independently of the engine's own code.

\* a move with each promotion piece a caller can attach to it
WithChoices(move) ==
    IF move.isPawnPromotion
      THEN {[move EXCEPT !.promotionChoice = ch] : ch \in PromotionChoices}
      ELSE {move}

RoundTrip(g, move) == Position(undoMove(makeMove(g, move))) = Position(g)

\* C1: makeMove(m) followed by undoMove() restores the board, the side to
\* move, both king locations, the castling rights, the en passant square, the
\* fifty-move counter and the position counts, for every generated candidate
\* m (legal or not, with every promotion piece); and each undoMove() of a
\* run of undos gives back the position its makeMove() started from.
C1_MakeUndoRoundTrip ==
    /\ \A cands \in {Candidates(gs)} :
         \A i \in 1..Len(cands) :
            \A move \in WithChoices(cands[i]) : RoundTrip(gs, move)
    /\ (lastOp = "undoMove" /\ Len(pre.gs.moveLog) # 0)
          => Position(gs) = pre.snap

\* an en passant capture has been undone, two plies or more into the game
C1_Witness ==
    /\ lastOp = "undoMove"
    /\ Len(pre.gs.moveLog) >= 2
    /\ Top(pre.gs.moveLog)[1].isEnPassantMove
    /\ Position(gs) = pre.snap

\* C2: getValidMoves() leaves the position counts, the board, the side to
\* move, the king locations, the castling rights, the en passant square, the
\* fifty-move counter and the three logs as they were; only checkMate and
\* draw may differ.
C2_GetValidMovesPure ==
    lastOp = "getValidMoves"
       => /\ [gs EXCEPT !.checkMate = pre.gs.checkMate,
                        !.draw = pre.gs.draw] = pre.gs
          /\ ~In("=== positionCounts mutated during getValidMoves! ===", printed)

\* a call that filtered candidates out and set a flag
C2_Witness ==
    /\ lastOp = "getValidMoves"
    /\ Len(validMoves) < Len(Candidates(pre.gs))
    /\ gs.checkMate /\ ~pre.gs.checkMate
    /\ Position(gs) = Position(pre.gs)

\* C10: undoMove() with an empty move log changes nothing.
C10_UndoEmptyLog ==
    (lastOp = "undoMove" /\ Len(pre.gs.moveLog) = 0) => gs = pre.gs

\* undoMove() was called on a game with no move made
C10_Witness ==
    /\ lastOp = "undoMove"
    /\ Len(pre.gs.moveLog) = 0
    /\ gs = pre.gs

\* The rules of chess for attacks, piece by piece from the attacker's side.

Sign(x) == IF x > 0 THEN 1 ELSE IF x < 0 THEN -1 ELSE 0

Largest(x, y) == IF x > y THEN x ELSE y

\* the squares strictly between (pr, pc) and (r, c) on a line are empty
ClearPath(board, pr, pc, r, c) ==
    \A i \in 1..(Largest(Abs(r - pr), Abs(c - pc)) - 1) :
        board[pr + i * Sign(r - pr)][pc + i * Sign(c - pc)] = 0

\* the piece on (pr, pc) attacks the square (r, c)
PieceAttacks(board, pr, pc, r, c) ==
    LET piece == board[pr][pc]
        dr == r - pr
        dc == c - pc
        straight == (dr = 0) # (dc = 0)
        diagonal == Abs(dr) = Abs(dc) /\ dr # 0
    IN  CASE piece % 10 = 1 -> dr = (IF piece = 11 THEN -1 ELSE 1) /\ Abs(dc) = 1
          [] piece % 10 = 2 -> {Abs(dr), Abs(dc)} = {1, 2}
          [] piece % 10 = 3 -> diagonal /\ ClearPath(board, pr, pc, r, c)
          [] piece % 10 = 4 -> straight /\ ClearPath(board, pr, pc, r, c)
          [] piece % 10 = 5 -> (straight \/ diagonal) /\ ClearPath(board, pr, pc, r, c)
          [] piece % 10 = 6 -> Largest(Abs(dr), Abs(dc)) = 1
          [] OTHER -> FALSE

\* some piece of `colour` (1 white, 2 black) attacks the square (r, c)
AttackedBy(board, colour, r, c) ==
    \E pr \in 0..7, pc \in 0..7 :
        /\ board[pr][pc] \div 10 = colour
        /\ PieceAttacks(board, pr, pc, r, c)

\* the king of `colour` stands on an attacked square
KingAttacked(board, colour) ==
    \E r \in 0..7, c \in 0..7 :
        /\ board[r][c] = 10 * colour + 6
        /\ AttackedBy(board, 3 - colour, r, c)

Mover(g) == IF g.whiteToMove THEN 1 ELSE 2

\* after `move` the king of the side that moved is not attacked
KingSafeAfter(g, move) == ~KingAttacked(makeMoveBoard(g.board, move), Mover(g))

KeepSafe(g, moves) == SelectSeq(moves, LAMBDA move : KingSafeAfter(g, move))

\* C3: the list getValidMoves() returns is exactly the candidates
\* (getAllPossibleMoves() and the castle candidates, in their order) after
\* which the mover's own king is not attacked.
C3_ValidMovesAreSafeCandidates ==
    lastOp = "getValidMoves" => validMoves = KeepSafe(pre.gs, Candidates(pre.gs))

\* a call in a position with a check, where some candidates are kept and
\* others are dropped
C3_Witness ==
    /\ lastOp = "getValidMoves"
    /\ KingAttacked(gs.board, Mover(gs))
    /\ Len(validMoves) > 0
    /\ Len(validMoves) < Len(Candidates(pre.gs))

PiecesMoved(moves, kind) ==
    Len(SelectSeq(moves, LAMBDA move : move.pieceMoved % 10 = kind))

\* C4: a new GameState holds the standard arrangement with White to move,
\* the four castling rights and an empty move log; getValidMoves() on it
\* returns exactly 20 moves, 16 of pawns and 4 of knights, and leaves
\* checkMate and draw false.
C4_NewGame ==
    /\ lastOp = "new" =>
         /\ \A c \in 0..7 :
               /\ gs.board[0][c] = <<24, 22, 23, 25, 26, 23, 22, 24>>[c + 1]
               /\ gs.board[7][c] = <<14, 12, 13, 15, 16, 13, 12, 14>>[c + 1]
         /\ \A c \in 0..7 : gs.board[1][c] = 21 /\ gs.board[6][c] = 11
         /\ \A r \in 2..5 : \A c \in 0..7 : gs.board[r][c] = 0
         /\ gs.whiteToMove
         /\ gs.currentCastlingRight = [wks |-> TRUE, bks |-> TRUE, wqs |-> TRUE, bqs |-> TRUE]
         /\ gs.moveLog = << >>
    /\ (lastOp = "getValidMoves" /\ pre.gs = NewGameState) =>
         /\ Len(validMoves) = 20
         /\ PiecesMoved(validMoves, 1) = 16
         /\ PiecesMoved(validMoves, 2) = 4
         /\ ~gs.checkMate /\ ~gs.draw

\* getValidMoves() was called on the new game
C4_Witness ==
    /\ lastOp = "getValidMoves"
    /\ pre.gs = NewGameState
    /\ Len(validMoves) = 20

\* C5: when getValidMoves() finds no legal move, checkMate is true and draw
\* false if the side to move is in check, and draw is true and checkMate
\* false otherwise, whatever the clock, the repetitions and the material.
C5_MateOrStalemate ==
    (lastOp = "getValidMoves" /\ Len(validMoves) = 0) =>
        IF KingAttacked(gs.board, Mover(gs))
          THEN gs.checkMate /\ ~gs.draw
          ELSE gs.draw /\ ~gs.checkMate

\* a mate found in a position that was flagged drawn by repetition before
C5_Witness ==
    /\ lastOp = "getValidMoves"
    /\ Len(validMoves) = 0
    /\ gs.checkMate
    /\ \E k \in DOMAIN gs.positionCounts : gs.positionCounts[k] >= 3

\* a stalemate
C5_WitnessStalemate ==
    /\ lastOp = "getValidMoves"
    /\ Len(validMoves) = 0
    /\ gs.draw
    /\ ~KingAttacked(gs.board, Mover(gs))

\* the positions of the game so far, the current one last
Played ==
    [i \in 1..(Len(snaps) + 1) |->
        IF i <= Len(snaps) THEN snaps[i] ELSE Position(gs)]

\* how many of the positions played have the board and the side to move of
\* the i-th
Occurrences(i) ==
    Cardinality({j \in 1..Len(Played) :
                    /\ Played[j].board = Played[i].board
                    /\ Played[j].whiteToMove = Played[i].whiteToMove})

\* C6: with the starting position counted as its first occurrence, the
\* getValidMoves() call made when the position on the board occurs for the
\* third time sets draw (by repetition, unless the fifty-move rule comes
\* first), and no call reports a draw by repetition while every position
\* has occurred at most twice.
C6_ThreefoldRepetition ==
    lastOp = "getValidMoves" =>
        /\ Occurrences(Len(Played)) >= 3 =>
              /\ gs.draw
              /\ gs.fiftyMoveCounter < 100
                    => printed = <<"Draw by threefold repetition">>
        /\ (\A i \in 1..Len(Played) : Occurrences(i) <= 2) =>
              /\ ~In("Draw by threefold repetition", printed)
              /\ (gs.draw /\ Len(validMoves) # 0 /\ gs.fiftyMoveCounter < 100)
                    => printed = <<"Draw by insufficient material">>

\* the call at the third occurrence of a position: draw turns true
C6_Witness ==
    /\ lastOp = "getValidMoves"
    /\ Occurrences(Len(Played)) = 3
    /\ \A i \in 1..(Len(Played) - 1) : Occurrences(i) <= 3
    /\ gs.draw /\ ~pre.gs.draw
    /\ printed = <<"Draw by threefold repetition">>

\* the ply from position a to position b moved a pawn or captured: a pawn of
\* the mover left its square, or there are fewer pieces
PawnMoveOrCapture(a, b) ==
    \/ \E r \in 0..7, c \in 0..7 :
          /\ a.board[r][c] = 10 * Mover(a) + 1
          /\ b.board[r][c] # a.board[r][c]
    \/ Cardinality({sq \in (0..7) \X (0..7) : b.board[sq[1]][sq[2]] # 0})
         < Cardinality({sq \in (0..7) \X (0..7) : a.board[sq[1]][sq[2]] # 0})

\* the plies that moved a pawn or captured, and 0 for the start of the game
ResetPlies ==
    {k \in 0..Len(snaps) : k = 0 \/ PawnMoveOrCapture(Played[k], Played[k + 1])}

\* the plies made since the last pawn move or capture
PliesSince ==
    Len(snaps) - (CHOOSE k \in ResetPlies : \A j \in ResetPlies : j <= k)

\* C7: fiftyMoveCounter is the number of plies made since the last pawn move
\* or capture (en passant included); a getValidMoves() call that finds legal
\* moves sets draw by the fifty-move rule when that number has reached 100,
\* and does not report that rule when it is below 100.
C7_FiftyMoveRule ==
    /\ gs.fiftyMoveCounter = PliesSince
    /\ (lastOp = "getValidMoves" /\ Len(validMoves) # 0) =>
          IF PliesSince >= 100
            THEN gs.draw /\ printed = <<"Draw by 50-move rule">>
            ELSE ~In("Draw by 50-move rule", printed)

\* the call after the hundredth ply without a pawn move or a capture
C7_Witness ==
    /\ lastOp = "getValidMoves"
    /\ Len(validMoves) # 0
    /\ PliesSince = 100
    /\ gs.draw
    /\ printed = <<"Draw by 50-move rule">>

\* a hundred plies and more played with a pawn move among the last hundred
C7_WitnessReset ==
    /\ lastOp = "getValidMoves"
    /\ Len(gs.moveLog) >= 100
    /\ PliesSince < 100
    /\ ~In("Draw by 50-move rule", printed)

Wings == {"king", "queen"}

HomeRow(g) == IF g.whiteToMove THEN 7 ELSE 0

\* the castling right of the side to move on `wing`
RightSet(g, wing) ==
    IF g.whiteToMove
      THEN IF wing = "king" THEN g.currentCastlingRight.wks ELSE g.currentCastlingRight.wqs
      ELSE IF wing = "king" THEN g.currentCastlingRight.bks ELSE g.currentCastlingRight.bqs

\* the columns between the king's and the rook's home squares
Between(wing) == IF wing = "king" THEN {5, 6} ELSE {1, 2, 3}

\* the columns the king passes through and arrives on
KingPath(wing) == IF wing = "king" THEN {5, 6} ELSE {3, 2}

\* the rules of castling for the side to move
CastleAllowed(g, wing) ==
    /\ ~KingAttacked(g.board, Mover(g))
    /\ RightSet(g, wing)
    /\ \A c \in Between(wing) : g.board[HomeRow(g)][c] = 0
    /\ \A c \in KingPath(wing) : ~AttackedBy(g.board, 3 - Mover(g), HomeRow(g), c)

\* `moves` holds the castle of the side to move on `wing`: the king from its
\* home square two columns towards the rook
CastleOffered(g, moves, wing) ==
    \E i \in 1..Len(moves) :
        /\ moves[i].isCastleMove
        /\ moves[i].pieceMoved = 10 * Mover(g) + 6
        /\ <<moves[i].startRow, moves[i].startCol>> = <<HomeRow(g), 4>>
        /\ <<moves[i].endRow, moves[i].endCol>>
             = <<HomeRow(g), IF wing = "king" THEN 6 ELSE 2>>

\* C8: for each side and each wing, the castle move is in the list
\* getValidMoves() returns iff the side to move is not in check, has the
\* castling right, the squares between king and rook are empty, and the
\* squares the king passes through and arrives on are not attacked (the
\* b-file square may be attacked).
C8_CastlingLegality ==
    lastOp = "getValidMoves" =>
        \A wing \in Wings :
            CastleOffered(pre.gs, validMoves, wing) <=> CastleAllowed(pre.gs, wing)

\* the queenside castle is offered with the b-file square attacked
C8_Witness ==
    /\ lastOp = "getValidMoves"
    /\ CastleOffered(gs, validMoves, "queen")
    /\ AttackedBy(gs.board, 3 - Mover(gs), HomeRow(gs), 1)

\* the castle is refused only because the king would pass an attacked square
C8_WitnessTransit ==
    /\ lastOp = "getValidMoves"
    /\ ~CastleOffered(gs, validMoves, "king")
    /\ RightSet(gs, "king")
    /\ ~KingAttacked(gs.board, Mover(gs))
    /\ \A c \in Between("king") : gs.board[HomeRow(gs)][c] = 0
    /\ AttackedBy(gs.board, 3 - Mover(gs), HomeRow(gs), 5)
    /\ ~AttackedBy(gs.board, 3 - Mover(gs), HomeRow(gs), 6)

\* the last move played was a pawn's two-square advance
TwoSquareAdvance(g) ==
    /\ Len(g.moveLog) # 0
    /\ Top(g.moveLog)[1].pieceMoved % 10 = 1
    /\ Abs(Top(g.moveLog)[1].endRow - Top(g.moveLog)[1].startRow) = 2

MovesFrom(moves, r, c) ==
    SelectSeq(moves, LAMBDA move : move.startRow = r /\ move.startCol = c)

\* the moves of `moves` that are not in `others`
Extra(moves, others) ==
    SelectSeq(moves, LAMBDA move : ~In(move, others))

\* the board after the pawn on (r, c) takes the pawn on (r, ac) en passant,
\* landing on (sr, ac)
AfterEnPassant(board, r, c, ac, sr) ==
    [x \in 0..7 |-> [y \in 0..7 |->
        IF <<x, y>> = <<sr, ac>> THEN board[r][c]
        ELSE IF <<x, y>> = <<r, c>> \/ <<x, y>> = <<r, ac>> THEN 0
        ELSE board[x][y]]]

\* the en passant rule for the pawn of the side to move on (r, c), beside
\* the pawn that has just advanced to (r, ac) over (sr, ac): `now` are the
\* legal moves, `otherwise` those of the same position with no en passant
\* square
EnPassantRule(g, now, otherwise, r, c, ac, sr) ==
    LET extra == Extra(MovesFrom(now, r, c), MovesFrom(otherwise, r, c))
    IN  /\ Extra(MovesFrom(otherwise, r, c), MovesFrom(now, r, c)) = << >>
        /\ IF KingAttacked(AfterEnPassant(g.board, r, c, ac, sr), Mover(g))
             THEN extra = << >>
             ELSE /\ Len(extra) = 1
                  /\ extra[1].isEnPassantMove
                  /\ <<extra[1].endRow, extra[1].endCol>> = <<sr, ac>>
                  /\ extra[1].pieceCaptured = 10 * (3 - Mover(g)) + 1
                  /\ makeMoveBoard(g.board, extra[1])
                       = AfterEnPassant(g.board, r, c, ac, sr)
                  /\ makeMoveBoard(g.board, extra[1])[extra[1].startRow][extra[1].endCol] = 0
                  /\ makeMoveBoard(g.board, extra[1])[extra[1].endRow][extra[1].endCol]
                       = extra[1].pieceMoved

\* the columns beside column ac holding a pawn of the side to move on row r
PawnsBeside(g, r, ac) ==
    {c \in {ac - 1, ac + 1} \cap (0..7) : g.board[r][c] = 10 * Mover(g) + 1}

\* C9: right after a pawn's two-square advance, each enemy pawn beside it
\* on its rank has exactly one legal move more than it would have
\* otherwise, the en passant capture onto the skipped square, unless that
\* capture exposes its own king; the capture empties the advanced pawn's
\* square (start row, end column of the capturer), not the destination,
\* and its pieceCaptured is the enemy pawn.
C9_EnPassant ==
    (lastOp = "getValidMoves" /\ TwoSquareAdvance(pre.gs)) =>
        \A last \in {Top(pre.gs.moveLog)[1]} :
        \A otherwise \in {getValidMoves([pre.gs EXCEPT !.enPassantPossible = << >>]).validMoves} :
        \A c \in PawnsBeside(pre.gs, last.endRow, last.endCol) :
            EnPassantRule(pre.gs, validMoves, otherwise, last.endRow, c,
                          last.endCol, (last.startRow + last.endRow) \div 2)

\* two pawns stand beside the advanced pawn and each may take it
C9_Witness ==
    /\ lastOp = "getValidMoves"
    /\ TwoSquareAdvance(gs)
    /\ Cardinality(PawnsBeside(gs, Top(gs.moveLog)[1].endRow, Top(gs.moveLog)[1].endCol)) = 2
    /\ Len(SelectSeq(validMoves, LAMBDA move : move.isEnPassantMove)) = 2

\* the pawn beside the advanced pawn is pinned and may not take it
C9_WitnessPinned ==
    /\ lastOp = "getValidMoves"
    /\ TwoSquareAdvance(gs)
    /\ PawnsBeside(gs, Top(gs.moveLog)[1].endRow, Top(gs.moveLog)[1].endCol) # {}
    /\ Len(SelectSeq(validMoves, LAMBDA move : move.isEnPassantMove)) = 0

\* the move makeMove has just applied
LastMove == Top(gs.moveLog)[1]

\* makeMove has just applied a move of a pawn to its last rank
Promoted ==
    /\ lastOp = "makeMove"
    /\ LastMove.pieceMoved % 10 = 1
    /\ LastMove.endRow = (IF LastMove.pieceMoved = 11 THEN 0 ELSE 7)

\* C11: when makeMove applies a promoting move whose promotionChoice is not
\* knight, bishop, rook or queen (6 for king, 1 for pawn), the choice is
\* rejected or replaced by the queen: the landing square never holds a king
\* or a pawn of the mover's colour.
C11_NoKingOrPawnPromoted ==
    Promoted =>
        gs.board[LastMove.endRow][LastMove.endCol]
            \notin {10 * (LastMove.pieceMoved \div 10) + 6,
                    10 * (LastMove.pieceMoved \div 10) + 1}

\* the piece of colour `colour` a promotion with `choice` has to give
PromotedPiece(colour, choice) == 10 * colour + (IF choice = 0 THEN 5 ELSE choice)

\* C12: when makeMove applies a move of a pawn to its last rank, the landing
\* square holds the queen of the mover's colour (15, 25) if promotionChoice
\* is unset, and the piece type chosen, in the mover's colour, if it is one
\* of 2, 3, 4, 5; so for the move just made and for every promoting
\* candidate of the position on the board.
C12_PromotionPiece ==
    /\ Promoted =>
          gs.board[LastMove.endRow][LastMove.endCol]
             = PromotedPiece(LastMove.pieceMoved \div 10, LastMove.promotionChoice)
    /\ \A cands \in {Candidates(gs)} :
         \A i \in 1..Len(cands) :
            (cands[i].pieceMoved % 10 = 1 /\ cands[i].endRow \in {0, 7}) =>
               \A choice \in {0, 2, 3, 4, 5} :
                  makeMove(gs, [cands[i] EXCEPT !.promotionChoice = choice])
                        .board[cands[i].endRow][cands[i].endCol]
                     = PromotedPiece(Mover(gs), choice)

\* a promotion with the choice unset has put a white queen on the last rank
C12_Witness ==
    /\ Promoted
    /\ LastMove.promotionChoice = 0
    /\ gs.board[LastMove.endRow][LastMove.endCol] = 15

\* a promotion to a black rook
C12_WitnessBlack ==
    /\ Promoted
    /\ LastMove.promotionChoice = 4
    /\ gs.board[LastMove.endRow][LastMove.endCol] = 24

\* C13: getMove(gs, validMoves) called with an empty list of legal moves
\* returns None as soon as it is called, without raising and without
\* starting a search: no pool is started, no root move is evaluated and the
\* search is never called.
C13_EmptyListGivesNone ==
    (lastOp = "getMove" /\ Len(validMoves) = 0) =>
        /\ ai.phase = "returned"
        /\ ai.nextMove = None
        /\ ai.processes = 0
        /\ ai.tables = << >>
        /\ ai.results = << >>
        /\ ai.calls = {}

\* getMove has returned None for the empty list of a mated side
C13_Witness ==
    /\ lastOp = "getMove"
    /\ Len(validMoves) = 0
    /\ gs.checkMate
    /\ ai.nextMove = None

\* getMove has returned None for the empty list of a stalemated side
C13_WitnessStalemate ==
    /\ lastOp = "getMove"
    /\ Len(validMoves) = 0
    /\ gs.draw
    /\ ai.nextMove = None

\* the largest of the root scores
BestScore == CHOOSE x \in {ai.results[i].score : i \in 1..Len(ai.results)} :
                \A i \in 1..Len(ai.results) : ai.results[i].score <= x

\* C14: getMove(gs, validMoves) called with a list that is not empty
\* evaluates every move of the list at the root, in list order, none skipped
\* or cut off, and returns the first move of the list whose root score is the
\* largest of all the root scores.
C14_BestRootMove ==
    (ai.phase = "returned" /\ ai.nextMove # None) =>
        /\ Len(ai.results) = Len(validMoves)
        /\ \A i \in 1..Len(validMoves) : ai.results[i].move = validMoves[i]
        /\ \E i \in 1..Len(validMoves) :
              /\ ai.nextMove = validMoves[i]
              /\ ai.results[i].score = BestScore
              /\ \A j \in 1..(i - 1) : ai.results[j].score < BestScore

\* getMove has returned for a list of more than ten moves of which several
\* have the largest root score
C14_Witness ==
    /\ ai.phase = "returned"
    /\ Len(validMoves) > 10
    /\ Len(ai.results) = Len(validMoves)
    /\ Cardinality({i \in 1..Len(ai.results) : ai.results[i].score = BestScore}) > 1

\* what getMove(g, moves) returns with DEPTH = depth when one worker, its
\* table empty at the start, evaluates all the root moves in list order
OneWorkerMove(g, moves, depth) ==
    LET out == mapstar([gs |-> g, table |-> << >>, calls |-> {}, hits |-> {},
                        returns |-> {}, cut |-> FALSE, score |-> 0],
                       moves, 1, Len(moves), depth,
                       IF g.whiteToMove THEN 1 ELSE -1, << >>)
    IN  out.results[MaxResult(out.results, 1, 1)].move

\* C15: for a fixed position, a fixed list of legal moves and a fixed DEPTH,
\* two invocations of getMove return the same move, whatever the assignment
\* of the root moves to the workers of the pool and whatever the table of a
\* worker holds from the root moves it evaluated earlier: the move returned
\* is the one returned when a single worker evaluates every root move.
C15_SameMove ==
    (ai.phase = "returned" /\ ai.nextMove # None) =>
        ai.nextMove = OneWorkerMove(gs, ai.tasks, ai.DEPTH)

\* the object without its terminal flags
Unflagged(g) == [g EXCEPT !.checkMate = FALSE, !.draw = FALSE]

C16_WitnessTwoWorkers ==
    /\ ai.phase = "returned"
    /\ ai.processes = 2
    /\ \A w \in 1..2 : ai.tables[w] # << >>

\* C17: the fixed-depth search terminates: every call of
\* findMoveNegaMaxAlphaBeta is made with a depth one less than that of its
\* caller and never below 0, so that the recursion stops at depth 0; while
\* root moves are left the pool has a worker and hands out at least one of
\* them at a time; and a call of getMove that has started the search
\* eventually returns a move of the list.
C17_SearchTerminates ==
    /\ [](\A call \in ai.calls :
             call[2] = call[1] - 1 /\ call[2] >= 0 /\ call[1] <= ai.DEPTH)
    /\ [](CanEvaluate =>
             ai.processes >= 1 /\ Chunksize(Len(ai.tasks), ai.processes) >= 1)
    /\ (ai.phase = "map") ~> (ai.phase = "returned" /\ In(ai.nextMove, ai.tasks))

\* a search with DEPTH = 3 has returned, having gone down to depth 0
C17_Witness ==
    /\ ai.phase = "returned"
    /\ ai.DEPTH = 3
    /\ ai.calls = {<<3, 2>>, <<2, 1>>, <<1, 0>>}


----------------------------------------------------------------------------
(* Bare positions: the two kings, alone or with minor pieces, on which     *)
(* getValidMoves decides the draw by insufficient material.                *)

\* the plies played from a bare position
MaterialPly == 1

\* the squares <<row, col>> the kings are placed on: e8, e1, b5, g5
KingSquares == {<<0, 4>>, <<7, 4>>, <<3, 1>>, <<3, 6>>}

\* the squares the minor pieces are placed on: c6 and e4 (row + col even)
\* and f4 (row + col odd)
MinorSquares == {<<2, 2>>, <<4, 4>>, <<4, 5>>}

\* the two kings a king's move apart
Adjacent(a, b) ==
    /\ a[1] - b[1] \in {-1, 0, 1}
    /\ a[2] - b[2] \in {-1, 0, 1}

\* the placements of the two kings
KingPairs ==
    {<<w, b>> \in KingSquares \X KingSquares : w # b /\ ~Adjacent(w, b)}

\* the piece sets: the kings alone, with one knight or bishop of either
\* colour, with one white and one black bishop
Material ==
    LET kings(k) == {<<k[1][1], k[1][2], 16>>, <<k[2][1], k[2][2], 26>>}
    IN  {kings(k) : k \in KingPairs}
        \cup {kings(k) \cup {<<sq[1], sq[2], minor>>} :
                 k \in KingPairs, sq \in MinorSquares, minor \in {12, 13, 22, 23}}
        \cup {kings(k) \cup {<<b[1][1], b[1][2], 13>>, <<b[2][1], b[2][2], 23>>} :
                 k \in KingPairs,
                 b \in {sq \in MinorSquares \X MinorSquares : sq[1] # sq[2]}}

\* a bare position in which the side that is not to move is not in check
InitMaterial ==
    /\ \E pieces \in Material, whiteToMove \in BOOLEAN :
         /\ gs = Endgame(pieces, whiteToMove)
         /\ ~inCheck([gs EXCEPT !.whiteToMove = ~whiteToMove])
    /\ validMoves = << >>
    /\ fresh = FALSE
    /\ printed = << >>
    /\ lastOp = "new"
    /\ snaps = << >>
    /\ pre = [gs |-> gs, snap |-> Position(gs)]
    /\ ai = Idle(0)
    /\ nb = NbIdle

\* gs.makeMove(move) for any move of validMoves, within MaterialPly plies
MakeEndgameMove ==
    /\ fresh
    /\ Len(gs.moveLog) < MaterialPly
    /\ \E i \in 1..Len(validMoves) : gs' = makeMove(gs, validMoves[i])
    /\ validMoves' = << >>
    /\ printed' = << >>
    /\ fresh' = FALSE
    /\ lastOp' = "makeMove"
    /\ snaps' = Append(snaps, Position(gs))
    /\ pre' = [gs |-> gs, snap |-> Position(gs)]
    /\ UNCHANGED <<ai, nb>>

NextMaterial == GetValidMoves \/ MakeEndgameMove \/ UndoMove

SpecMaterial == InitMaterial /\ [][NextMaterial]_vars

\* the squares of the board
Squares == (0..7) \X (0..7)

\* the number of squares holding `piece`
OnBoard(board, piece) ==
    Cardinality({sq \in Squares : board[sq[1]][sq[2]] = piece})

\* the number of squares holding a piece
Occupied(board) ==
    Cardinality({sq \in Squares : board[sq[1]][sq[2]] # 0})

\* the board holds the two kings and `others` further pieces
KingsAnd(board, others) ==
    /\ OnBoard(board, 16) = 1
    /\ OnBoard(board, 26) = 1
    /\ Occupied(board) = 2 + others

\* C18: when the board holds only the two kings and the side to move has a
\* legal move, getValidMoves has set draw and printed the draw by
\* insufficient material, wherever the two kings stand.
C18_KingsAloneDraw ==
    (lastOp = "getValidMoves" /\ KingsAnd(gs.board, 0) /\ Len(validMoves) > 0)
        => (gs.draw /\ In("Draw by insufficient material", printed))

\* C19: when the board holds only the two kings and a single knight or
\* bishop, of White or of Black, insufficientMaterial() returns true.
C19_SingleMinorInsufficient ==
    (/\ KingsAnd(gs.board, 1)
     /\ \E minor \in {12, 13, 22, 23} : OnBoard(gs.board, minor) = 1)
        => insufficientMaterial(gs)

\* the bishops on the board stand on squares of one colour
SameShade(board) ==
    \A a, b \in {sq \in Squares : board[sq[1]][sq[2]] \in {13, 23}} :
        (a[1] + a[2]) % 2 = (b[1] + b[2]) % 2

\* C20: when the board holds only the two kings, one white bishop and one
\* black bishop, insufficientMaterial() returns true if and only if the two
\* bishops stand on squares of the same colour.
C20_OppositeBishops ==
    (/\ KingsAnd(gs.board, 2)
     /\ OnBoard(gs.board, 13) = 1
     /\ OnBoard(gs.board, 23) = 1)
        => (insufficientMaterial(gs) <=> SameShade(gs.board))

\* the moves whose notation ChessMain writes to its log: the moves played
LoggedMoves == {gs.moveLog[j][1] : j \in 1..Len(gs.moveLog)}

\* C21: getChessNotation() of a castle move is "O-O" for a kingside castle
\* (the king goes two columns towards the h-file) and "O-O-O" for a
\* queenside castle.
C21_CastleNotation ==
    \A move \in LoggedMoves :
        move.isCastleMove =>
            getChessNotation(move) =
                (IF move.endCol - move.startCol = 2 THEN "O-O" ELSE "O-O-O")

----------------------------------------------------------------------------
(* ChessEngine and ChessEngineNb side by side: every call made on gs is    *)
(* made on the object of ChessEngineNb as well, makeMove with the move of  *)
(* ChessEngineNb that has the same squares, flags and promotion piece.     *)

\* the games played side by side: fool's mate, an en passant capture
\* (e4 a6 e5 d5 exd6 cxd6) and a castle (e4 e5 Nf3 Nf6 Bc4 Bc5 O-O)
NbBook ==
    << FoolsMate,
       <<6444, 1020, 4434, 1333, 3423, 1223>>,
       <<6444, 1434, 7655, 625, 7542, 532, 7476>> >>

\* the Move of ChessEngineNb built like `move` on `board`
NbSame(board, move) ==
    NbMove(<<move.startRow, move.startCol>>, <<move.endRow, move.endCol>>, board,
           move.isEnPassantMove, move.isCastleMove, move.promotionChoice)

\* getValidMoves() on both objects
BothGetValidMoves ==
    /\ \E res \in {getValidMoves(gs)} :
         /\ gs' = res.gs
         /\ validMoves' = res.validMoves
         /\ printed' = res.printed
    /\ nb' = [nb EXCEPT !.validMoves = NbgetValidMoves(nb.gs)]
    /\ fresh' = TRUE
    /\ lastOp' = "getValidMoves"
    /\ pre' = [gs |-> gs, snap |-> Position(gs)]
    /\ UNCHANGED <<snaps, ai>>

\* makeMove on both objects, for a move of validMoves continuing a game of
\* NbBook
BothMakeMove ==
    /\ fresh
    /\ \E i \in 1..Len(validMoves), choice \in PromotionChoices :
         LET move == [validMoves[i] EXCEPT !.promotionChoice = choice]
         IN  /\ choice # 0 => validMoves[i].isPawnPromotion
             /\ Allowed(NbBook, gs.moveLog, move)
             /\ gs' = makeMove(gs, move)
             /\ nb' = [gs |-> NbmakeMove(nb.gs, NbSame(nb.gs.board, move)),
                       validMoves |-> << >>]
    /\ validMoves' = << >>
    /\ printed' = << >>
    /\ fresh' = FALSE
    /\ lastOp' = "makeMove"
    /\ snaps' = Append(snaps, Position(gs))
    /\ pre' = [gs |-> gs, snap |-> Position(gs)]
    /\ UNCHANGED ai

\* undoMove() on both objects
BothUndoMove ==
    /\ gs' = undoMove(gs)
    /\ nb' = [gs |-> NbundoMove(nb.gs), validMoves |-> << >>]
    /\ validMoves' = << >>
    /\ printed' = << >>
    /\ fresh' = FALSE
    /\ lastOp' = "undoMove"
    /\ snaps' = IF Len(snaps) # 0 THEN Pop(snaps) ELSE snaps
    /\ pre' = [gs |-> gs, snap |-> IF Len(snaps) # 0 THEN Top(snaps) ELSE Position(gs)]
    /\ UNCHANGED ai

NextNb == BothGetValidMoves \/ BothMakeMove \/ BothUndoMove

SpecNb == Init /\ [][NextNb]_vars

\* the moves of a list of ChessEngine: squares and special-move flags
MoveSet(moves) ==
    {<<moves[i].startRow, moves[i].startCol, moves[i].endRow, moves[i].endCol,
       moves[i].isPawnPromotion, moves[i].isEnPassantMove, moves[i].isCastleMove>> :
        i \in 1..Len(moves)}

\* the moves of a list of ChessEngineNb
NbMoveSet(moves) ==
    {<<moves[i].startRow, moves[i].startCol, moves[i].endRow, moves[i].endCol,
       moves[i].pawnPromotion, moves[i].isEnPassantMove, moves[i].isCastleMove>> :
        i \in 1..Len(moves)}

\* the two objects hold the same board and the same side to move
C22_SameBoards ==
    /\ nb.gs.board = gs.board
    /\ nb.gs.whiteToMove = gs.whiteToMove

\* C22: run side by side from the starting position on the same makeMove and
\* undoMove calls, ChessEngine and ChessEngineNb keep equal boards and side
\* to move, and getValidMoves returns the same set of moves in both, 20 of
\* them in the initial position.
C22_NbRefines ==
    /\ C22_SameBoards
    /\ lastOp = "getValidMoves" =>
         /\ NbMoveSet(nb.validMoves) = MoveSet(validMoves)
         /\ gs.board = StartBoard /\ gs.whiteToMove => Len(nb.validMoves) = 20

\* the board holds one king of each colour, on the squares the two king
\* locations name
KingsTracked(g) ==
    /\ OnBoard(g.board, 16) = 1
    /\ OnBoard(g.board, 26) = 1
    /\ g.board[g.whiteKingLocation[1]][g.whiteKingLocation[2]] = 16
    /\ g.board[g.blackKingLocation[1]][g.blackKingLocation[2]] = 26

\* the objects the filter loop of getValidMoves goes through from moves[i]
\* on: the object before each pass, after its makeMove and after its undoMove
RECURSIVE FilterStates(_, _, _)
FilterStates(g, moves, i) ==
    IF i > Len(moves) \/ g.whiteToMove \notin BOOLEAN
      THEN {g}
      ELSE {g, makeMove(g, moves[i])}
           \cup FilterStates(TryMove(g, moves[i]).gs, moves, i + 1)

\* C23: in every state reached by makeMove and undoMove calls, and in the
\* states getValidMoves goes through when called there, the board holds
\* exactly one white and one black king, whiteKingLocation is the square
\* holding 16 and blackKingLocation the square holding 26.
C23_KingsTracked ==
    \A g \in FilterStates(gs, Candidates(gs), 1) : KingsTracked(g)

\* a castle has just been undone, and castles are among the moves tried
C23_Witness ==
    /\ lastOp = "undoMove"
    /\ Len(pre.gs.moveLog) > 0
    /\ Top(pre.gs.moveLog)[1].isCastleMove
    /\ \E i \in 1..Len(Candidates(gs)) : Candidates(gs)[i].isCastleMove

\* a castle has just been made
C23_WitnessCastled ==
    /\ lastOp = "makeMove"
    /\ Top(gs.moveLog)[1].isCastleMove
    /\ KingsTracked(gs)

\* the four castling rights
Rights == {"wks", "wqs", "bks", "bqs"}

\* the home squares of the rooks: the rook that starts there and the right
\* that goes with it
RookHomes ==
    { [square |-> <<7, 0>>, rook |-> 14, right |-> "wqs"],
      [square |-> <<7, 7>>, rook |-> 14, right |-> "wks"],
      [square |-> <<0, 0>>, rook |-> 24, right |-> "bqs"],
      [square |-> <<0, 7>>, rook |-> 24, right |-> "bks"] }

\* the rights the rule takes away for `move`
RightsLost(move) ==
    (IF move.pieceMoved = 16 THEN {"wks", "wqs"} ELSE {})
    \cup (IF move.pieceMoved = 26 THEN {"bks", "bqs"} ELSE {})
    \cup {h.right : h \in {h \in RookHomes :
                             /\ move.pieceMoved = h.rook
                             /\ <<move.startRow, move.startCol>> = h.square}}
    \cup {h.right : h \in {h \in RookHomes :
                             /\ move.pieceCaptured = h.rook
                             /\ <<move.endRow, move.endCol>> = h.square}}

\* from `before` to `after` the rights have changed by the rule for `move`
RightsRule(before, after, move) ==
    \A right \in Rights :
        after.currentCastlingRight[right]
            = (before.currentCastlingRight[right] /\ right \notin RightsLost(move))

\* C24: makeMove takes away both rights of a king that moves (castling
\* included), the right of a rook that leaves its home square, the right of
\* a rook captured on its home square, and changes no right otherwise; this
\* for the move just made and for every move of the caller's list.
C24_CastlingRightsRule ==
    /\ lastOp = "makeMove" => RightsRule(pre.gs, gs, Top(gs.moveLog)[1])
    /\ \A i \in 1..Len(validMoves) :
         RightsRule(gs, makeMove(gs, validMoves[i]), validMoves[i])

\* a rook has just been captured on its home square and the right is gone
C24_Witness ==
    /\ lastOp = "makeMove"
    /\ Top(gs.moveLog)[1].pieceCaptured = 24
    /\ Top(gs.moveLog)[1].pieceMoved # 26
    /\ pre.gs.currentCastlingRight.bqs
    /\ ~gs.currentCastlingRight.bqs
    /\ gs.currentCastlingRight.bks

\* a rook has just left its home square
C24_WitnessRookMoved ==
    /\ lastOp = "makeMove"
    /\ Top(gs.moveLog)[1].pieceMoved = 14
    /\ pre.gs.currentCastlingRight.wks
    /\ ~gs.currentCastlingRight.wks
    /\ gs.currentCastlingRight.wqs

\* in this step no right that is false becomes true
NoRightSet ==
    \A right \in Rights :
        ~gs.currentCastlingRight[right] => ~gs'.currentCastlingRight[right]

\* C25 as stated: a castling right, once cleared, is never set again: no
\* operation turns a false right back to true.
C25_NeverSetAgain == [][NoRightSet]_vars

\* C25, amended: no call of makeMove or getValidMoves turns a false right
\* back to true, and along the moves of the log the rights only go from
\* true to false; undoMove puts the rights back to what they were before
\* the move it takes back, which can make a false right true again.
C25_SetAgainOnlyByUndo ==
    /\ [][lastOp' # "undoMove" => NoRightSet]_vars
    /\ [][(lastOp' = "undoMove" /\ Len(gs.moveLog) > 0) =>
             gs'.currentCastlingRight = Top(snaps).currentCastlingRight]_vars
    /\ [](\A i, j \in 1..Len(gs.castleRightsLog) : \A right \in Rights :
             (i < j /\ ~gs.castleRightsLog[i][right]) => ~gs.castleRightsLog[j][right])

\* undoMove has just made a cleared right true again
C25_Witness ==
    /\ lastOp = "undoMove"
    /\ \E right \in Rights :
         ~pre.gs.currentCastlingRight[right] /\ gs.currentCastlingRight[right]

\* the squares a pawn has skipped between the two boards: the pawn has left
\* its home row and stands two rows further on the same file
Skipped(before, after) ==
    {sq \in Squares :
        \E side \in {1, 2} :
            LET home == IF side = 1 THEN 6 ELSE 1
                to   == IF side = 1 THEN 4 ELSE 3
            IN  /\ sq[1] = (home + to) \div 2
                /\ before[home][sq[2]] = 10 * side + 1
                /\ after[home][sq[2]] = 0
                /\ before[to][sq[2]] = 0
                /\ after[to][sq[2]] = 10 * side + 1}

\* enPassantPossible and the top of its log are the square skipped
\* between the two boards, or the empty tuple when there is none
EnPassantSquare(before, g) ==
    /\ g.enPassantPossible \in {<<sq[1], sq[2]>> : sq \in Skipped(before, g.board)}
                               \cup {<< >>}
    /\ (g.enPassantPossible = << >>) <=> (Skipped(before, g.board) = {})
    /\ Top(g.enPassantPossibleLog) = g.enPassantPossible

\* C26: after every makeMove enPassantPossible is set iff the move made was
\* a pawn's two-square advance, and then it is the skipped square; the
\* value pushed on enPassantPossibleLog is the same; an en passant capture
\* is generated only in the position right after such an advance, onto the
\* skipped square.
C26_EnPassantPossible ==
    /\ lastOp = "makeMove" => EnPassantSquare(pre.gs.board, gs)
    /\ \A i \in 1..Len(validMoves) :
         EnPassantSquare(gs.board, makeMove(gs, validMoves[i]))
    /\ \A i \in 1..Len(Candidates(gs)) :
         Candidates(gs)[i].isEnPassantMove =>
            /\ Len(snaps) # 0
            /\ <<Candidates(gs)[i].endRow, Candidates(gs)[i].endCol>>
                 \in Skipped(Top(snaps).board, gs.board)

\* a two-square advance has just been made and the pawn can be taken en
\* passant
C26_Witness ==
    /\ lastOp = "makeMove"
    /\ Skipped(pre.gs.board, gs.board) # {}
    /\ gs.enPassantPossible # << >>
    /\ \E i \in 1..Len(Candidates(gs)) : Candidates(gs)[i].isEnPassantMove

\* the file the king of a castle arrives on, the file its rook arrives on
\* and the file the rook comes from
KingFile(wing) == IF wing = "king" THEN 6 ELSE 2

RookFile(wing) == IF wing = "king" THEN 5 ELSE 3

CornerFile(wing) == IF wing = "king" THEN 7 ELSE 0

\* the wing of a castle move, by the king's destination file
WingOf(move) == IF move.endCol = 6 THEN "king" ELSE "queen"

\* `after` is `before` with the king of `side` and the rook of `wing`
\* castled on `row` and nothing else changed
Castled(before, after, side, row, wing) ==
    /\ after[row][KingFile(wing)] = 10 * side + 6
    /\ after[row][RookFile(wing)] = 10 * side + 4
    /\ after[row][4] = 0
    /\ after[row][CornerFile(wing)] = 0
    /\ \A sq \in Squares :
         (sq[1] # row \/ sq[2] \notin {4, KingFile(wing), RookFile(wing), CornerFile(wing)})
            => after[sq[1]][sq[2]] = before[sq[1]][sq[2]]

\* king and rook of `side` stand on their home squares of `row` with the
\* squares of the castle empty
BackHome(board, side, row, wing) ==
    /\ board[row][4] = 10 * side + 6
    /\ board[row][CornerFile(wing)] = 10 * side + 4
    /\ board[row][KingFile(wing)] = 0
    /\ board[row][RookFile(wing)] = 0

\* makeMove of the castle `move` on g, and undoMove after it
CastleAndBack(g, move) ==
    /\ Castled(g.board, makeMove(g, move).board, move.pieceMoved \div 10,
               move.startRow, WingOf(move))
    /\ BackHome(undoMove(makeMove(g, move)).board, move.pieceMoved \div 10,
                move.startRow, WingOf(move))
    /\ undoMove(makeMove(g, move)).board = g.board

\* C27: makeMove of a castle move relocates king and rook in the same call:
\* kingside the king is on the g-file and the rook on the f-file with the
\* e- and h-file squares empty, queenside the king is on the c-file and the
\* rook on the d-file with the a- and e-file squares empty; undoMove puts
\* both back on their home squares.
C27_CastleRelocates ==
    /\ \A i \in 1..Len(validMoves) :
         validMoves[i].isCastleMove => CastleAndBack(gs, validMoves[i])
    /\ (lastOp = "makeMove" /\ Top(gs.moveLog)[1].isCastleMove) =>
         Castled(pre.gs.board, gs.board, Top(gs.moveLog)[1].pieceMoved \div 10,
                 Top(gs.moveLog)[1].startRow, WingOf(Top(gs.moveLog)[1]))
    /\ (lastOp = "undoMove" /\ Len(pre.gs.moveLog) # 0
          /\ Top(pre.gs.moveLog)[1].isCastleMove) =>
         BackHome(gs.board, Top(pre.gs.moveLog)[1].pieceMoved \div 10,
                  Top(pre.gs.moveLog)[1].startRow, WingOf(Top(pre.gs.moveLog)[1]))

\* Black has just castled queenside
C27_Witness ==
    /\ lastOp = "makeMove"
    /\ Top(gs.moveLog)[1].isCastleMove
    /\ Top(gs.moveLog)[1].pieceMoved = 26
    /\ WingOf(Top(gs.moveLog)[1]) = "queen"
    /\ gs.board[0][2] = 26 /\ gs.board[0][3] = 24

\* a kingside castle of White has just been taken back
C27_WitnessUndone ==
    /\ lastOp = "undoMove"
    /\ Len(pre.gs.moveLog) # 0
    /\ Top(pre.gs.moveLog)[1].isCastleMove
    /\ Top(pre.gs.moveLog)[1].pieceMoved = 16
    /\ WingOf(Top(pre.gs.moveLog)[1]) = "king"

\* C28: after every undoMove call checkMate and draw are both false,
\* whatever they were before the call.
C28_UndoClearsFlags ==
    lastOp = "undoMove" => (~gs.checkMate /\ ~gs.draw)

\* undoMove has been called on a position declared checkmate
C28_Witness ==
    /\ lastOp = "undoMove"
    /\ pre.gs.checkMate
    /\ ~gs.checkMate

\* undoMove has been called on a position declared drawn
C28_WitnessDraw ==
    /\ lastOp = "undoMove"
    /\ pre.gs.draw
    /\ ~gs.draw

\* undoMove has been called with an empty move log
C28_WitnessEmptyLog ==
    /\ lastOp = "undoMove"
    /\ Len(pre.gs.moveLog) = 0

\* C29: findMoveNegaMaxAlphaBeta returns a cached score only from an entry
\* stored for the same position, that is the same board and the same side
\* to move, with a stored depth of at least the remaining depth; an entry
\* stored for the same board with the other side to move is never returned.
C29_CachedSamePosition ==
    \A hit \in ai.hits :
        /\ hit.entry[1] >= hit.depth
        /\ hit.entry[3] = hit.whiteToMove

\* the object with the turn passed, as getValidMoves and getCastleMoves
\* hold it when they ask for the attacks of the side that has just moved
TurnPassed(g) == [g EXCEPT !.whiteToMove = ~@]

\* squareUnderAttack agrees on every square with the rules of chess, the
\* attacker being the opponent of the side to move of g
AttackTestRight(g) ==
    \A sq \in Squares :
        squareUnderAttack(g, sq[1], sq[2])
            <=> AttackedBy(g.board, 3 - Mover(g), sq[1], sq[2])

\* C30: squareUnderAttack(r, c) is true iff some piece of the opponent of
\* the side to move attacks (r, c): a pawn on its forward diagonal, a knight
\* a jump away, the king beside it, or a rook/queen (straight) or
\* bishop/queen (diagonal) that is the first piece along the ray from
\* (r, c); a piece on a ray blocks everything behind it.
C30_SquareUnderAttack ==
    AttackTestRight(gs) /\ AttackTestRight(TurnPassed(gs))

\* the opponent's piece of `kind` on (pr, pc) is the only attacker of sq
OnlyAttacker(g, sq, kind) ==
    \E p \in Squares :
        /\ g.board[p[1]][p[2]] = 10 * (3 - Mover(g)) + kind
        /\ PieceAttacks(g.board, p[1], p[2], sq[1], sq[2])
        /\ \A q \in Squares \ {p} :
             g.board[q[1]][q[2]] \div 10 = 3 - Mover(g)
                => ~PieceAttacks(g.board, q[1], q[2], sq[1], sq[2])

\* the opponent's rook or queen stands on the line of sq behind another
\* piece
Screened(g, sq) ==
    \E p \in Squares :
        /\ g.board[p[1]][p[2]] \in {10 * (3 - Mover(g)) + 4, 10 * (3 - Mover(g)) + 5}
        /\ (p[1] = sq[1]) # (p[2] = sq[2])
        /\ ~ClearPath(g.board, p[1], p[2], sq[1], sq[2])

\* for each kind of piece a square attacked by a piece of that kind alone,
\* and a square that is not attacked because the rook or queen on its line
\* is screened
C30_Witness ==
    /\ \A kind \in 1..6 :
         \E sq \in Squares :
            squareUnderAttack(gs, sq[1], sq[2]) /\ OnlyAttacker(gs, sq, kind)
    /\ \E sq \in Squares :
         ~squareUnderAttack(gs, sq[1], sq[2]) /\ Screened(gs, sq)

\* C31: scoreBoard(gs) does not mutate the position it is called with:
\* when it returns every field of gs, the checkMate and draw flags
\* included, equals its value before the call, also right after a makeMove
\* for which getValidMoves has not yet been run.
C31_ScoreBoardPure ==
    scoreBoard(gs).gs = gs

\* no two moves of the list have the same moveID, nor the same start and
\* end squares
DistinctMoves(moves) ==
    \A i, j \in 1..Len(moves) :
        i # j =>
            /\ moves[i].moveID # moves[j].moveID
            /\ <<moves[i].startRow, moves[i].startCol, moves[i].endRow, moves[i].endCol>>
                 # <<moves[j].startRow, moves[j].startCol, moves[j].endRow, moves[j].endCol>>

\* C32: in every list returned by getValidMoves no two moves have the same
\* start and end squares (the same moveID): a promoting pawn move appears
\* once, an en passant capture shares no destination with an ordinary
\* capture of the same pawn and a castle is no ordinary king move, so that
\* the comparison by moveID selects at most one legal move.
C32_DistinctMoveIDs ==
    /\ DistinctMoves(validMoves)
    /\ \A id \in {validMoves[i].moveID : i \in 1..Len(validMoves)} :
         Len(SelectSeq(validMoves, LAMBDA move : move.moveID = id)) = 1

\* the list holds two promoting moves of one pawn, a capture and an advance
C32_Witness ==
    /\ lastOp = "getValidMoves"
    /\ \E i, j \in 1..Len(validMoves) :
         /\ validMoves[i].isPawnPromotion /\ validMoves[j].isPawnPromotion
         /\ validMoves[i].startCol = validMoves[j].startCol
         /\ validMoves[i].pieceCaptured # 0 /\ validMoves[j].pieceCaptured = 0

\* the list holds a castle beside the ordinary moves of the king
C32_WitnessCastle ==
    /\ lastOp = "getValidMoves"
    /\ \E i, j \in 1..Len(validMoves) :
         /\ validMoves[i].isCastleMove
         /\ validMoves[j].pieceMoved % 10 = 6 /\ ~validMoves[j].isCastleMove

\* the list holds an en passant capture and an ordinary capture
C32_WitnessEnPassant ==
    /\ lastOp = "getValidMoves"
    /\ \E i, j \in 1..Len(validMoves) :
         /\ validMoves[i].isEnPassantMove
         /\ ~validMoves[j].isEnPassantMove /\ validMoves[j].pieceCaptured # 0

\* the fields of a ChessEngineNb object that makeMove followed by undoMove
\* is to restore
NbPosition(n) ==
    [ board                |-> n.board,
      whiteToMove          |-> n.whiteToMove,
      whiteKingLocation    |-> n.whiteKingLocation,
      blackKingLocation    |-> n.blackKingLocation,
      currentCastlingRight |-> n.currentCastlingRight,
      enPassantPossible    |-> n.enPassantPossible,
      fiftyMoveCounter     |-> n.fiftyMoveCounter,
      positionCounts       |-> n.positionCounts ]

\* C33: in ChessEngineNb.GameState, in every state reached by makeMove and
\* undoMove calls, makeMove(m) followed by undoMove() restores the four
\* castling rights, the board, the side to move, the king locations, the
\* en passant target, the half-move clock and positionCounts, also when
\* the makeMove comes after an earlier undoMove.
C33_NbMakeUndoRoundTrip ==
    \A i \in 1..Len(validMoves) :
        NbPosition(NbundoMove(NbmakeMove(nb.gs, NbSame(nb.gs.board, validMoves[i]))))
            = NbPosition(nb.gs)

\* C34: findMoveNegaMaxAlphaBeta pairs every makeMove with an undoMove,
\* also when the loop is left by a cut: when it returns, at any depth, the
\* board, side to move, king locations, castling rights, en passant target,
\* half-move clock, positionCounts and the lengths of the three logs equal
\* their values on entry.
C34_SearchRestores ==
    \A ret \in ai.returns : ret.restored

\* calls have returned at depths 2, 1 and 0, at depth 1 both after a cut
\* and at the end of the loop
C34_Witness ==
    /\ ai.phase = "returned"
    /\ \A depth \in 0..2 : \E ret \in ai.returns : ret.depth = depth
    /\ \E ret \in ai.returns : ret.cut /\ ret.depth = 1
    /\ \E ret \in ai.returns : ~ret.cut /\ ret.depth = 1

\* C35: a position that getValidMoves has classified as terminal gets the
\* terminal score from the search at every remaining depth: 0 for a draw,
\* stalemate included, and -CHECKMATE from the point of view of the
\* checkmated side to move.
C35_TerminalScores ==
    \A ret \in ai.returns :
        /\ ret.checkMate => ret.score = -100 * CHECKMATE
        /\ ret.draw => ret.score = 100 * DRAW

\* the two logs are one longer than moveLog, and the current en passant
\* target, castling rights and half-move clock are those on top of the logs
LogsAligned(g) ==
    /\ Len(g.castleRightsLog) = Len(g.moveLog) + 1
    /\ Len(g.enPassantPossibleLog) = Len(g.moveLog) + 1
    /\ g.enPassantPossible = Top(g.enPassantPossibleLog)
    /\ g.currentCastlingRight = Top(g.castleRightsLog)
    /\ g.fiftyMoveCounter = (IF Len(g.moveLog) = 0 THEN 0 ELSE Top(g.moveLog)[2])

\* C36: in every state reached by makeMove and undoMove calls (undoMove on
\* an empty log included, and the calls getValidMoves makes in its loop),
\* len(castleRightsLog) = len(enPassantPossibleLog) = len(moveLog) + 1,
\* enPassantPossible is the top of enPassantPossibleLog, the current rights
\* are the top of castleRightsLog and fiftyMoveCounter is the counter
\* stored with the top of moveLog (0 when moveLog is empty).
C36_LogsAligned ==
    \A g \in FilterStates(gs, Candidates(gs), 1) : LogsAligned(g)

\* undoMove has gone back to a position with moves left in the log, a
\* running clock and some castling right lost
C36_Witness ==
    /\ lastOp = "undoMove"
    /\ Len(gs.moveLog) > 0
    /\ gs.fiftyMoveCounter > 0
    /\ \E right \in Rights : ~gs.currentCastlingRight[right]

\* makeMove has just set an en passant target
C36_WitnessEnPassant ==
    /\ lastOp = "makeMove"
    /\ gs.enPassantPossible # << >>

\* the sum of the counts of the keys in `keys`
RECURSIVE SumCounts(_, _)
SumCounts(pc, keys) ==
    IF keys = {} THEN 0
    ELSE LET k == CHOOSE x \in keys : TRUE
         IN  pc[k] + SumCounts(pc, keys \ {k})

\* every count is at least 1, the counts sum to len(moveLog) + 1 and the
\* position on the board is a key
CountsRight(g) ==
    /\ \A k \in DOMAIN g.positionCounts : g.positionCounts[k] >= 1
    /\ SumCounts(g.positionCounts, DOMAIN g.positionCounts) = Len(g.moveLog) + 1
    /\ <<g.board, g.whiteToMove>> \in DOMAIN g.positionCounts
    /\ getBoardHash(g) \in DOMAIN g.positionCounts

\* C37: in every state reached by makeMove and undoMove calls, those of
\* the loop of getValidMoves included, every count stored in positionCounts
\* is at least 1, the counts sum to len(moveLog) + 1 and the fingerprint of
\* the current position (board and side to move) is a key of positionCounts.
C37_PositionCounts ==
    \A g \in FilterStates(gs, Candidates(gs), 1) : CountsRight(g)

\* a position stands in the dictionary with a count of 3 beside others,
\* after an undoMove
C37_Witness ==
    /\ lastOp = "undoMove"
    /\ \E k \in DOMAIN gs.positionCounts : gs.positionCounts[k] = 3
    /\ Cardinality(DOMAIN gs.positionCounts) > 1
    /\ Cardinality(DOMAIN gs.positionCounts) < Len(gs.moveLog) + 1

\* the home squares of the king and the rook a castling right concerns
KingHome(right) ==
    IF right \in {"wks", "wqs"} THEN <<7, 4, 16>> ELSE <<0, 4, 26>>

RookHome(right) ==
    CASE right = "wks" -> <<7, 7, 14>>
      [] right = "wqs" -> <<7, 0, 14>>
      [] right = "bks" -> <<0, 7, 24>>
      [] right = "bqs" -> <<0, 0, 24>>

\* every right that is set has its king and its rook on their home squares
RightsHavePieces(g) ==
    \A right \in Rights :
        g.currentCastlingRight[right] =>
            /\ g.board[KingHome(right)[1]][KingHome(right)[2]] = KingHome(right)[3]
            /\ g.board[RookHome(right)[1]][RookHome(right)[2]] = RookHome(right)[3]

\* every castle among `moves` has the rook it relocates on the corner of
\* its wing
CastlesHaveRooks(g, moves) ==
    \A i \in 1..Len(moves) :
        moves[i].isCastleMove =>
            g.board[moves[i].startRow][CornerFile(WingOf(moves[i]))]
                = 10 * (moves[i].pieceMoved \div 10) + 4

\* C38: in every state reached by legal moves and undos, and in the states
\* the loop of getValidMoves goes through there, a set castling right
\* implies that the king and the rook it concerns stand on their home
\* squares, so that no castle getCastleMoves produces lacks its rook.
C38_RightsHavePieces ==
    /\ \A g \in FilterStates(gs, Candidates(gs), 1) : RightsHavePieces(g)
    /\ CastlesHaveRooks(gs, Candidates(gs))

\* a rook has been taken on its home square, its right is gone and the
\* other right of its colour is still set
C38_Witness ==
    /\ lastOp = "makeMove"
    /\ Top(gs.moveLog)[1].pieceCaptured = 24
    /\ <<Top(gs.moveLog)[1].endRow, Top(gs.moveLog)[1].endCol>> = <<0, 0>>
    /\ pre.gs.currentCastlingRight.bqs
    /\ ~gs.currentCastlingRight.bqs
    /\ gs.currentCastlingRight.bks

\* a castle is among the candidates
C38_WitnessCastle ==
    \E i \in 1..Len(Candidates(gs)) : Candidates(gs)[i].isCastleMove

\* no pawn stands on row 0 or row 7, and the rows getPawnMoves reads for
\* each pawn (r - 1 for a white pawn, r + 1 for a black pawn, and two rows
\* ahead from the home row) are rows of the board
PawnsInside(g) ==
    /\ \A c \in 0..7 : g.board[0][c] % 10 # 1 /\ g.board[7][c] % 10 # 1
    /\ \A sq \in Squares :
         /\ g.board[sq[1]][sq[2]] = 11 =>
              (sq[1] - 1 \in 0..7 /\ (sq[1] = 6 => sq[1] - 2 \in 0..7))
         /\ g.board[sq[1]][sq[2]] = 21 =>
              (sq[1] + 1 \in 0..7 /\ (sq[1] = 1 => sq[1] + 2 \in 0..7))

\* C39: in every state reached from the start by legal moves whose
\* promotion choice is unset or one of 2, 3, 4, 5, and in the states the
\* loop of getValidMoves goes through there, no pawn stands on row 0 or
\* row 7, so that getPawnMoves reads no row outside 0..7.
C39_NoPawnOnLastRows ==
    \A g \in FilterStates(gs, Candidates(gs), 1) : PawnsInside(g)

\* a pawn has just reached the last row with the choice unset, and other
\* pawns are still on the board
C39_Witness ==
    /\ lastOp = "makeMove"
    /\ Top(gs.moveLog)[1].isPawnPromotion
    /\ Top(gs.moveLog)[1].promotionChoice = 0
    /\ \E sq \in Squares : gs.board[sq[1]][sq[2]] % 10 = 1

\* a black pawn has just been promoted to a piece of the caller's choice
C39_WitnessBlack ==
    /\ lastOp = "makeMove"
    /\ Top(gs.moveLog)[1].isPawnPromotion
    /\ Top(gs.moveLog)[1].pieceMoved = 21
    /\ Top(gs.moveLog)[1].promotionChoice \in {2, 3, 4, 5}

====
